---- MODULE Spec2Model ----
(***************************************************************************)
(* A model of the JIT operator pipeline of hyrise: the MVCC visibility     *)
(* check of JitValidate, the chunk driver of JitOperatorWrapper and        *)
(* JitReadTuples, the value-id acceleration of dictionary predicates, the  *)
(* installation of parameters, and the sub-plan acceptance rules of the    *)
(* JitAwareLQPTranslator.                                                  *)
(*                                                                         *)
(* The module holds several specifications over one set of variables; a    *)
(* specification leaves the variables of the others at their idle value.   *)
(*   SpecValidate    the JitValidate test harness (jit_validate_test)      *)
(*   SpecScan        JitOperatorWrapper::_on_execute over an operator chain*)
(*   SpecValueId     JitReadTuples: one value-id predicate over the chunks *)
(*   SpecParameters  JitReadTuples: parameters registered in any order     *)
(*   SpecTranslate   JitAwareLQPTranslator: which sub-plans are fused      *)
(*   SpecLower       the lowering of a filter expression and its evaluation*)
(*   SpecChunkLoop   the chunk loop, the row limit and the abort check     *)
(*   SpecPrepare     JitOperatorWrapper::_prepare of copies on threads     *)
(*   SpecDispatch    the row loop chosen for each chunk by before_chunk    *)
(*   SpecSlots       the tuple slots a chain is built over                  *)
(*   SpecEncodings   a value-id predicate over chunks of any encoding      *)
(*   SpecExecute     AbstractOperator::execute of the operators of a plan  *)
(*   SpecCached      CardinalityEstimatorCached::estimate on a join graph  *)
(***************************************************************************)
EXTENDS Integers, Sequences, FiniteSets, TLC

VARIABLES
  \* ---- SpecValidate
  probe_row,            \* MVCC values of row (2,2) of the test table
  vcontext,             \* the JitRuntimeContext of the test
  consume_was_called,   \* MockSink::_consume_was_called
  validated,            \* arguments of the validate_row call the sink answers
  test_case             \* the test that runs: its chain is JitValidate<test_case>

validateVars == <<probe_row, vcontext, consume_was_called, validated, test_case>>

VARIABLES
  \* ---- SpecScan
  plan,                 \* the sub-plan the translator was given
  jit_operators,        \* the operator chain of the JitOperatorWrapper
  in_table,             \* input_left()->get_output()
  context,              \* the JitRuntimeContext of _on_execute
  out_table,            \* the rows of the output table, in order
  next_chunk,           \* chunk_id of the loop of _on_execute
  offered,              \* the rows JitReadTuples::execute emitted, in order
  pc                    \* position of _on_execute

scanVars == <<plan, jit_operators, in_table, context, out_table, next_chunk, offered, pc>>

VARIABLES
  \* ---- SpecReadTuples
  query,                   \* the predicate to translate and the parameters the caller supplies
  _input_columns,          \* JitReadTuples::_input_columns
  _input_literals,         \* JitReadTuples::_input_literals
  _input_parameters,       \* JitReadTuples::_input_parameters
  _value_id_predicates,    \* JitReadTuples::_value_id_predicates
  _num_tuple_values,       \* JitReadTuples::_num_tuple_values
  jit_expression,          \* the JitExpression of the predicate, <<>> before its translation
  _input_parameter_values, \* JitOperatorWrapper::_input_parameter_values
  runtime_tuple,           \* context.tuple: the value of each slot
  dictionaries,            \* the dictionary of the column in each chunk of the table
  read_chunk_id,           \* the id of the chunk before_chunk ran for
  current_row,             \* the row execute read last and what the filter did with it
  rpc                      \* position in the life of the operator

readVars == <<query, _input_columns, _input_literals, _input_parameters,
              _value_id_predicates, _num_tuple_values, jit_expression,
              _input_parameter_values, runtime_tuple, dictionaries, read_chunk_id,
              current_row, rpc>>

VARIABLES
  \* ---- SpecTranslate
  lqp,                  \* the logical query plan: node 1 is the node to translate
  global,               \* Global::get().jit_validate and the experiment's jit_predicate
  queue,                \* the queue of _visit
  visited,              \* the visited set of _visit
  input_nodes,          \* the non-jittable nodes the traversal ended in
  jittable_node_count,  \* the number of jittable nodes collected
  use_validate,         \* a Validate node was collected
  allow_aggregate,      \* an Aggregate node met next is accepted
  translated,           \* what translate_node returns
  tpc                   \* position of translate_node

translateVars == <<lqp, global, queue, visited, input_nodes, jittable_node_count,
                   use_validate, allow_aggregate, translated, tpc>>

VARIABLES
  \* ---- SpecChunkLoop
  transaction_aborted   \* transaction_context->aborted() of the operator

loopVars == <<transaction_aborted>>

VARIABLES
  \* ---- SpecPrepare
  translated_operators, \* the jit_operators the translator gave the wrapper
  input_slots,          \* tuple_index of each input column of the JitReadTuples
  specialized_function, \* the SpecializedFunction the copies share
  specialize_mutex,     \* SpecializedFunction::specialize_mutex: its holder, 0 if free
  _input_wrappers,      \* JitReadTuples::_input_wrappers
  input_chunk_count,    \* input_left()->get_output()->chunk_count()
  prepare_calls,        \* how often each step of _choose_execute_func has run
  wrapper_pc            \* position of each copy in _prepare

prepareVars == <<translated_operators, input_slots, specialized_function,
                 specialize_mutex, _input_wrappers, input_chunk_count, prepare_calls,
                 wrapper_pc>>

VARIABLES
  \* ---- SpecDispatch
  same_type,            \* what before_chunk returned for the current chunk
  row_loops             \* the row loops _on_execute has run, in order

dispatchVars == <<same_type, row_loops>>

VARIABLES
  \* ---- SpecSlots
  handed_out,           \* the JitTupleValues the add_ functions returned, in order
  sink_columns          \* the JitTupleValues given to the sink

slotVars == <<handed_out, sink_columns>>

VARIABLES
  \* ---- SpecExecute
  plan_operators,       \* _type of the operators of the plan, in the order they are executed
  transaction_context,  \* whether the operators have a transaction context
  executing,            \* the operator whose execute is running or has returned last
  epc,                  \* position in AbstractOperator::execute
  deep_copy_exists,     \* Global::get().deep_copy_exists
  old_deep_copy_exists, \* the local old_deep_copy_exists of each call
  _output,              \* _output of each operator
  operator_calls        \* what each call of execute has called, and how often

executeVars == <<plan_operators, transaction_context, executing, epc, deep_copy_exists,
                 old_deep_copy_exists, _output, operator_calls>>

VARIABLES
  \* ---- SpecCached
  cache,                \* the entry of the CardinalityCache for the join graph
  last_estimate         \* the last call of estimate: its estimator, what it did and returned

cacheVars == <<cache, last_estimate>>

\* the variables of the specifications after SpecChunkLoop
laterVars == <<prepareVars, dispatchVars, slotVars, executeVars, cacheVars>>

vars == <<validateVars, scanVars, readVars, translateVars, loopVars, laterVars>>

\* what the actions of one specification leave alone
notValidate == <<scanVars, readVars, translateVars, loopVars, laterVars>>
notScan == <<validateVars, readVars, translateVars, loopVars, laterVars>>
notReadTuples == <<validateVars, scanVars, translateVars, loopVars, laterVars>>
notTranslate == <<validateVars, scanVars, readVars, loopVars, laterVars>>
notChunkLoop == <<validateVars, readVars, translateVars, laterVars>>
earlierVars == <<validateVars, scanVars, readVars, translateVars, loopVars>>
notPrepare == <<earlierVars, dispatchVars, slotVars, executeVars, cacheVars>>
notDispatch == <<validateVars, readVars, translateVars, loopVars, slotVars, executeVars,
                 cacheVars>>
notExecute == <<validateVars, scanVars, readVars, translateVars, prepareVars,
                dispatchVars, slotVars, cacheVars>>
notCached == <<earlierVars, prepareVars, dispatchVars, slotVars, executeVars>>

IdleTransaction == transaction_aborted = FALSE

IdlePrepare ==
  /\ translated_operators = <<>> /\ input_slots = <<>> /\ specialized_function = "none"
  /\ specialize_mutex = 0 /\ _input_wrappers = <<>> /\ input_chunk_count = 0
  /\ prepare_calls = "none"
  /\ wrapper_pc = <<>>

IdleDispatch == same_type = TRUE /\ row_loops = <<>>

IdleSlots == handed_out = <<>> /\ sink_columns = <<>>

IdleExecute ==
  /\ plan_operators = <<>> /\ transaction_context = FALSE /\ executing = 0 /\ epc = "idle"
  /\ deep_copy_exists = FALSE /\ old_deep_copy_exists = <<>> /\ _output = <<>>
  /\ operator_calls = <<>>

IdleCached == cache = "none" /\ last_estimate = "none"

IdleLater == IdlePrepare /\ IdleDispatch /\ IdleSlots /\ IdleExecute /\ IdleCached

IdleTranslate ==
  /\ lqp = <<>> /\ global = "none" /\ queue = <<>> /\ visited = {} /\ input_nodes = {}
  /\ jittable_node_count = 0 /\ use_validate = FALSE /\ allow_aggregate = FALSE
  /\ translated = "none" /\ tpc = "idle"

IdleReadTuples ==
  /\ query = "none" /\ _input_columns = <<>> /\ _input_literals = <<>>
  /\ _input_parameters = <<>> /\ _value_id_predicates = <<>> /\ _num_tuple_values = 0
  /\ jit_expression = <<>> /\ _input_parameter_values = <<>> /\ runtime_tuple = <<>>
  /\ dictionaries = <<>> /\ read_chunk_id = 0 /\ current_row = <<>> /\ rpc = "idle"

(***************************************************************************)
(* Bounds of the model.                                                    *)
(***************************************************************************)
MaxCid == 4          \* commit ids of the probe row and the snapshot: 0..MaxCid
PosListLen == 2      \* length of the position lists given to JitValidate
MaxRows == 3         \* rows of the input table of the driver
MaxLimit == 2        \* row counts of a Limit node: 0..MaxLimit

(***************************************************************************)
(* MVCC data of the test table (10_ints.tbl, chunk size 3).                *)
(***************************************************************************)
MAX_COMMIT_ID == 2147483646

None == "none"

MvccRow(b, e, t) == [begin_cid |-> b, end_cid |-> e, tid |-> t]

\* the rows the fixture sets, as RowID <<chunk_id, chunk_offset>> -> MVCC values
FixtureMvcc ==
  (<<0, 0>> :> MvccRow(1, 2, 0)) @@
  (<<0, 1>> :> MvccRow(1, MAX_COMMIT_ID, 0)) @@
  (<<0, 2>> :> MvccRow(10, MAX_COMMIT_ID, 0)) @@
  (<<1, 0>> :> MvccRow(4, MAX_COMMIT_ID, 4)) @@
  (<<1, 1>> :> MvccRow(5, MAX_COMMIT_ID, 5)) @@
  (<<1, 2>> :> MvccRow(3, 5, 5)) @@
  (<<2, 0>> :> MvccRow(1, 4, 4)) @@
  (<<2, 1>> :> MvccRow(1, 9, 0))

\* _expected_values, in the order the fixture pushes them
expected_values ==
  (<<0, 0>> :> FALSE) @@ (<<0, 1>> :> TRUE) @@ (<<0, 2>> :> FALSE) @@
  (<<1, 0>> :> FALSE) @@ (<<1, 1>> :> TRUE) @@ (<<1, 2>> :> FALSE) @@
  (<<2, 0>> :> TRUE) @@ (<<2, 1>> :> TRUE)

\* the row of the test table the fixture leaves alone; the model varies it
ProbeRowId == <<2, 2>>

TestRowIds == DOMAIN FixtureMvcc \cup {ProbeRowId}

\* the transaction ids the fixture uses: committed rows (0), another
\* transaction (4) and the own transaction (5)
TestTids == {0, 4, 5}

\* TransactionContext(transaction_id, snapshot_commit_id) of the fixture is
\* (5, 3); the model also runs other snapshots
TestTransactionContexts ==
  {[transaction_id |-> t, snapshot_commit_id |-> s] : t \in {4, 5}, s \in {3, 4}}

ProbeRows ==
  {MvccRow(b, e, t) : b \in 0..MaxCid, e \in (0..MaxCid) \cup {MAX_COMMIT_ID}, t \in TestTids}

\* a mutant: the row the fixture leaves alone answers with the MVCC values of
\* the last row the fixture sets
TestTableMvccLastFixtureRow(row_id) ==
  IF row_id = ProbeRowId THEN FixtureMvcc[<<2, 1>>] ELSE FixtureMvcc[row_id]

\* _test_table->get_chunk(chunk_id)->mvcc_columns() at chunk_offset
TestTableMvcc(row_id) ==
  IF row_id = ProbeRowId THEN probe_row ELSE FixtureMvcc[row_id]

(***************************************************************************)
(* JitValidate.                                                            *)
(***************************************************************************)
\* the operational visibility rule
IsRowVisible(our_tid, snapshot_commit_id, row) ==
  \/ /\ row.tid = our_tid
     /\ row.begin_cid > snapshot_commit_id
     /\ row.end_cid = MAX_COMMIT_ID
  \/ /\ row.tid # our_tid
     /\ row.begin_cid <= snapshot_commit_id
     /\ (row.end_cid = MAX_COMMIT_ID \/ row.end_cid > snapshot_commit_id)

\* the row whose MVCC values JitValidate<table_type> reads
ValidatedRowId(ctx, table_type) ==
  IF table_type = "References"
  THEN ctx.pos_list[ctx.chunk_offset + 1]
  ELSE <<ctx.columns[1], ctx.chunk_offset>>

\* JitValidate::_consume: TRUE iff the tuple is emitted to the next operator
JitValidateConsume(ctx, table_type) ==
  IsRowVisible(ctx.transaction_id, ctx.snapshot_commit_id,
               TestTableMvcc(ValidatedRowId(ctx, table_type)))

(***************************************************************************)
(* The test harness: source -> validate -> sink.                           *)
(***************************************************************************)
\* the rows the position lists of the model refer to: a deleted row, a visible
\* row, an own insert and the probe row
PosListRowIds == {<<0, 0>>, <<0, 1>>, <<1, 1>>, ProbeRowId}

PosLists == [1..PosListLen -> PosListRowIds]

\* a mutant: the MVCC columns of chunk 0 whatever chunk is asked for
ValidateRowColumnsChunk0(chunk_id) == <<0>>

\* the chunk whose MVCC columns validate_row hands to the context (a pointer:
\* <<>> is null)
ValidateRowColumns(chunk_id) == <<chunk_id>>

\* the position list the reference test installs in the context
InstalledPosList(pos_list) == pos_list

IdleScan ==
  /\ plan = None /\ jit_operators = <<>> /\ in_table = None /\ context = None
  /\ out_table = <<>> /\ next_chunk = 0 /\ offered = <<>> /\ pc = "idle"

InitValidate ==
  /\ IdleScan /\ IdleReadTuples /\ IdleTranslate /\ IdleTransaction /\ IdleLater
  /\ test_case \in {"Data", "References"}
  /\ probe_row \in ProbeRows
  /\ \E txc \in TestTransactionContexts :
       vcontext = [transaction_id |-> txc.transaction_id,
                   snapshot_commit_id |-> txc.snapshot_commit_id,
                   columns |-> <<>>, chunk_offset |-> 0,
                   referenced_table |-> None, pos_list |-> <<>>]
  /\ consume_was_called = FALSE
  /\ validated = [called |-> FALSE, chunk_id |-> 0, chunk_offset |-> 0,
                  no_mvcc |-> TRUE]

\* ValidateOnReferenceTable: context.referenced_table and context.pos_list;
\* the sink holds no answer for the new list yet
SetPosList(pos_list) ==
  /\ test_case = "References"
  /\ vcontext' = [vcontext EXCEPT !.referenced_table = "test_table",
                                  !.pos_list = InstalledPosList(pos_list)]
  /\ validated' = [validated EXCEPT !.called = FALSE]
  /\ UNCHANGED <<probe_row, consume_was_called, test_case, notValidate>>

\* validate_row: set the MVCC columns (data table) and the chunk offset, reset
\* the sink, emit one tuple from the source
validate_row(chunk_id, chunk_offset, no_mvcc) ==
  /\ no_mvcc = (test_case = "Data")
  /\ no_mvcc => <<chunk_id, chunk_offset>> \in TestRowIds
  /\ ~no_mvcc => /\ vcontext.referenced_table = "test_table"
                 /\ chunk_offset < Len(vcontext.pos_list)
  /\ LET ctx == [vcontext EXCEPT
                   !.columns = IF no_mvcc THEN ValidateRowColumns(chunk_id) ELSE @,
                   !.chunk_offset = chunk_offset]
     IN /\ vcontext' = ctx
        /\ consume_was_called' =
             JitValidateConsume(ctx, test_case)
  /\ validated' = [called |-> TRUE, chunk_id |-> chunk_id,
                   chunk_offset |-> chunk_offset, no_mvcc |-> no_mvcc]
  /\ UNCHANGED <<probe_row, test_case, notValidate>>

NextValidate ==
  \/ \E pos_list \in PosLists : SetPosList(pos_list)
  \/ \E chunk_id \in 0..2, chunk_offset \in 0..2 :
       validate_row(chunk_id, chunk_offset, TRUE)
  \/ \E chunk_id \in 0..1, chunk_offset \in 0..(PosListLen - 1) :
       validate_row(chunk_id, chunk_offset, FALSE)

SpecValidate == InitValidate /\ [][NextValidate]_vars

(***************************************************************************)
(* C1, C2: visibility on data tables and on reference tables.              *)
(***************************************************************************)
\* the visibility rule as the claim states it
ClaimVisible(row, tx, snap) ==
  \/ (row.tid = tx /\ row.begin_cid > snap /\ row.end_cid = MAX_COMMIT_ID)
  \/ (row.tid # tx /\ row.begin_cid <= snap
        /\ (row.end_cid = MAX_COMMIT_ID \/ row.end_cid > snap))

ValidatedData == validated.called /\ validated.no_mvcc
ValidatedReference == validated.called /\ ~validated.no_mvcc

\* C1: on a data table the sink's consume is called iff the row at
\* (chunk_id, chunk_offset) is visible by the rule of the claim; for the
\* snapshot (5, 3) and the rows of the fixture this is the expected value of
\* the test.
C1_ValidateOnDataTable ==
  ValidatedData =>
    LET row_id == <<validated.chunk_id, validated.chunk_offset>>
    IN /\ consume_was_called =
            ClaimVisible(TestTableMvcc(row_id), vcontext.transaction_id,
                         vcontext.snapshot_commit_id)
       /\ (/\ vcontext.transaction_id = 5
           /\ vcontext.snapshot_commit_id = 3
           /\ row_id \in DOMAIN expected_values)
          => consume_was_called = expected_values[row_id]

\* a row deleted in the future of the snapshot by another transaction was
\* forwarded, and the own insert of the fixture as well
C1_Witness ==
  /\ ValidatedData
  /\ consume_was_called
  /\ validated.chunk_id = 2 /\ validated.chunk_offset = 2
  /\ probe_row.tid # vcontext.transaction_id
  /\ probe_row.end_cid # MAX_COMMIT_ID

\* The reference test: the decision for chunk offset i is the data-table
\* decision for the row pos_list[i] of the referenced table.
ReferenceHarnessAgrees ==
  ValidatedReference =>
    consume_was_called =
      ClaimVisible(TestTableMvcc(vcontext.pos_list[validated.chunk_offset + 1]),
                   vcontext.transaction_id, vcontext.snapshot_commit_id)

\* offset 1 of a position list whose entry is visible
ReferenceHarnessReached ==
  /\ ValidatedReference
  /\ validated.chunk_offset = 1
  /\ vcontext.pos_list[2] = <<0, 1>>
  /\ vcontext.pos_list[1] = <<0, 0>>
  /\ consume_was_called
  /\ vcontext.transaction_id = 5 /\ vcontext.snapshot_commit_id = 3

(***************************************************************************)
(* SpecScan: JitOperatorWrapper::_on_execute driving the chain the         *)
(* translator built over an input table, chunk by chunk and row by row.    *)
(***************************************************************************)
\* std::numeric_limits<size_t>::max(), as far as the model's integers go
SizeMax == 2147483647

\* The rows of a data table: a visible row that passes the predicate, a row
\* the snapshot does not see, and a visible row the predicate drops.
RowKinds == {"ok", "invisible", "small"}

KindMvcc(kind) ==
  IF kind = "invisible" THEN MvccRow(10, MAX_COMMIT_ID, 0) ELSE MvccRow(1, MAX_COMMIT_ID, 0)

\* the value of column a
KindValue(kind) == IF kind = "small" THEN 1 ELSE 3

\* the data table a reference table refers to: one chunk, a row of each kind
BaseTable == << <<"ok", "invisible", "small">> >>

BaseRowIds == {<<0, j>> : j \in 0..2}

\* every way to cut a sequence of rows into non-empty chunks
RECURSIVE Chunkings(_)
Chunkings(rows) ==
  IF rows = <<>> THEN {<<>>}
  ELSE UNION {{<<SubSeq(rows, 1, k)>> \o rest :
                 rest \in Chunkings(SubSeq(rows, k + 1, Len(rows)))} : k \in 1..Len(rows)}

TablesOf(cells) ==
  UNION {UNION {Chunkings(rows) : rows \in [1..n -> cells]} : n \in 0..MaxRows}

\* a data table holds its rows and their MVCC data; a reference table holds,
\* per chunk, a position list into BaseTable
InputTables ==
  {[type |-> "Data", chunks |-> c] : c \in TablesOf(RowKinds)} \cup
  {[type |-> "References", chunks |-> c] : c \in TablesOf(BaseRowIds)}

\* the data row behind the cell at a position of the input table
CellKind(table, cell) ==
  IF table.type = "Data" THEN cell ELSE BaseTable[cell[1] + 1][cell[2] + 1]

\* the value of column id: the row's own position in the data table
CellId(table, chunk_id, chunk_offset) ==
  IF table.type = "Data" THEN <<chunk_id, chunk_offset>>
  ELSE table.chunks[chunk_id + 1][chunk_offset + 1]

(***************************************************************************)
(* The translator assembling the chain (the part of                        *)
(* _try_translate_sub_plan_to_jit_operators after the acceptance rules).   *)
(***************************************************************************)
\* what the chain assembly reads of the accepted sub-plan
Plans ==
  {[use_validate |-> v, has_predicate |-> f, use_limit |-> l # <<>>,
    num_rows |-> IF l = <<>> THEN 0 ELSE l[1], last_node |-> n,
    output_must_be_materialized |-> m] :
     v \in BOOLEAN, f \in BOOLEAN, l \in {<<>>} \cup {<<k>> : k \in 0..MaxLimit},
     n \in {"Aggregate", "Other"}, m \in BOOLEAN}

Op(type) == [type |-> type, expr |-> None]
Compute(expr) == [type |-> "Compute", expr |-> expr]

\* the operators after the filter: the aggregate, or limit, computes and writer
SinkOperators(p) ==
  IF p.last_node = "Aggregate"
  THEN <<Op("Aggregate")>>
  ELSE (IF p.use_limit THEN <<Op("Limit")>> ELSE <<>>) \o
       (IF p.output_must_be_materialized
        THEN <<Compute("output"), Op("WriteTuples")>>
        ELSE <<Op("WriteOffsets")>>)

BuildChain(p) ==
  <<Op("ReadTuples")>> \o
  (IF p.use_validate THEN <<Op("Validate")>> ELSE <<>>) \o
  (IF p.has_predicate THEN <<Compute("predicate"), Op("Filter")>> ELSE <<>>) \o
  SinkOperators(p)

\* JitReadTuples::_row_count_expression: <<>> is nullptr
RowCountExpression(p) == IF p.use_limit THEN <<p.num_rows>> ELSE <<>>

_source == jit_operators[1]
_sink == jit_operators[Len(jit_operators)]

(***************************************************************************)
(* The operators of the chain.                                             *)
(***************************************************************************)
\* JitValidate on the context of the driver
ScanRowVisible(ctx, table_type) ==
  LET kind == IF table_type = "References"
              THEN LET row_id == ctx.pos_list[ctx.chunk_offset + 1]
                   IN BaseTable[row_id[1] + 1][row_id[2] + 1]
              ELSE in_table.chunks[ctx.mvcc_data[1] + 1][ctx.chunk_offset + 1]
  IN IsRowVisible(ctx.transaction_id, ctx.snapshot_commit_id, KindMvcc(kind))

\* JitCompute: evaluate the expression into its result slot
ComputeExpr(expr, tuple) ==
  IF expr = "predicate" THEN [tuple EXCEPT !.pred = (tuple.a >= 3)]
  ELSE [tuple EXCEPT !.proj = tuple.a + 1]

\* _consume of operator i on state st = [context, out_table]; the operator
\* emits to operator i + 1 or drops the tuple
RECURSIVE Consume(_, _, _)
Consume(ops, i, st) ==
  LET ctx == st.context
      type == ops[i].type
  IN CASE type = "Validate" ->
            IF ScanRowVisible(ctx, in_table.type) THEN Consume(ops, i + 1, st) ELSE st
       [] type = "Compute" ->
            Consume(ops, i + 1,
                    [st EXCEPT !.context.tuple = ComputeExpr(ops[i].expr, ctx.tuple)])
       [] type = "Filter" ->
            IF ctx.tuple.pred THEN Consume(ops, i + 1, st) ELSE st
       [] type = "Limit" ->
            IF ctx.limit_rows > 0
            THEN Consume(ops, i + 1, [st EXCEPT !.context.limit_rows = @ - 1])
            ELSE st
       [] type = "WriteTuples" ->
            [st EXCEPT !.out_table = Append(@, <<ctx.tuple.id, ctx.tuple.proj>>)]
       [] type = "WriteOffsets" ->
            [st EXCEPT !.out_table = Append(@, <<ctx.chunk_id, ctx.chunk_offset>>)]
       [] type = "Aggregate" ->
            IF \E g \in 1..Len(ctx.groups) : ctx.groups[g] = ctx.tuple.a
            THEN st
            ELSE [st EXCEPT !.context.groups = Append(@, ctx.tuple.a)]

(***************************************************************************)
(* JitReadTuples.                                                          *)
(***************************************************************************)
\* before_query: context.limit_rows
LimitRows(row_count_expression) ==
  IF row_count_expression # <<>> THEN row_count_expression[1] ELSE SizeMax

\* a mutant: before_chunk keeps the chunk offset of the previous chunk
BeforeChunkKeepOffset(ctx, table, chunk_id, has_validate) ==
  LET in_chunk == table.chunks[chunk_id + 1]
      c1 == [ctx EXCEPT !.chunk_size = Len(in_chunk), !.chunk_id = chunk_id]
  IN IF ~has_validate THEN c1
     ELSE IF table.type = "Data"
          THEN [c1 EXCEPT !.mvcc_data_lock = <<chunk_id>>, !.mvcc_data = <<chunk_id>>]
          ELSE [c1 EXCEPT !.referenced_table = "base", !.pos_list = in_chunk]

\* a mutant: before_chunk installs the position list back to front
BeforeChunkReversedPosList(ctx, table, chunk_id, has_validate) ==
  LET in_chunk == table.chunks[chunk_id + 1]
      c1 == [ctx EXCEPT !.chunk_offset = 0, !.chunk_size = Len(in_chunk),
                        !.chunk_id = chunk_id]
  IN IF ~has_validate THEN c1
     ELSE IF table.type = "Data"
          THEN [c1 EXCEPT !.mvcc_data_lock = <<chunk_id>>, !.mvcc_data = <<chunk_id>>]
          ELSE [c1 EXCEPT !.referenced_table = "base",
                          !.pos_list = [i \in 1..Len(in_chunk) |->
                                          in_chunk[Len(in_chunk) + 1 - i]]]

\* before_chunk with a JitValidate in the chain: the lock on the MVCC data of
\* a chunk that has MVCC data, else the referenced table and position list
MvccDataOfChunk(ctx, has_mvcc_data, chunk_id, pos_list) ==
  IF has_mvcc_data
  THEN [ctx EXCEPT !.mvcc_data_lock = <<chunk_id>>, !.mvcc_data = <<chunk_id>>]
  ELSE [ctx EXCEPT !.referenced_table = "base", !.pos_list = pos_list]

\* before_chunk: the context for the chunk. A chunk of a data table has MVCC
\* data, a chunk of a reference table has none.
BeforeChunk(ctx, table, chunk_id, has_validate) ==
  LET in_chunk == table.chunks[chunk_id + 1]
      c1 == [ctx EXCEPT !.chunk_offset = 0, !.chunk_size = Len(in_chunk),
                        !.chunk_id = chunk_id]
  IN IF ~has_validate THEN c1
     ELSE MvccDataOfChunk(c1, table.type = "Data", chunk_id, in_chunk)

\* the segment readers: the input columns of the current row
ReadValues(ctx, table) ==
  LET cell == table.chunks[ctx.chunk_id + 1][ctx.chunk_offset + 1]
  IN [ctx EXCEPT !.tuple.id = CellId(table, ctx.chunk_id, ctx.chunk_offset),
                 !.tuple.a = KindValue(CellKind(table, cell))]

FreshContext ==
  [transaction_id |-> 5, snapshot_commit_id |-> 3, limit_rows |-> 0,
   chunk_offset |-> 0, chunk_size |-> 0, chunk_id |-> 0,
   mvcc_data |-> <<>>, mvcc_data_lock |-> <<>>,
   referenced_table |-> None, pos_list |-> <<>>,
   tuple |-> [id |-> <<0, 0>>, a |-> 0, pred |-> FALSE, proj |-> 0],
   groups |-> <<>>]

(***************************************************************************)
(* JitOperatorWrapper::_on_execute.                                        *)
(***************************************************************************)
IdleValidate ==
  /\ probe_row = MvccRow(0, 0, 0) /\ vcontext = None /\ consume_was_called = FALSE
  /\ validated = None /\ test_case = None

InitScan ==
  /\ IdleValidate /\ IdleReadTuples /\ IdleTranslate /\ IdleTransaction /\ IdleLater
  /\ plan \in Plans
  /\ plan.last_node = "Aggregate" => ~plan.output_must_be_materialized
  /\ jit_operators = BuildChain(plan)
  /\ in_table \in InputTables
  /\ context = FreshContext
  /\ out_table = <<>>
  /\ next_chunk = 0
  /\ offered = <<>>
  /\ pc = "start"

\* the source's and the sink's before_query
BeforeQuery ==
  /\ pc = "start"
  /\ context' = [FreshContext EXCEPT !.limit_rows = LimitRows(RowCountExpression(plan))]
  /\ pc' = "chunk_loop"
  /\ UNCHANGED <<plan, jit_operators, in_table, out_table, next_chunk, offered, notScan>>

\* the condition of the chunk loop
ChunkLoopContinues == next_chunk < Len(in_table.chunks) /\ context.limit_rows # 0

\* one pass of the loop head: before_chunk of the next chunk
EnterChunk ==
  /\ pc = "chunk_loop"
  /\ ChunkLoopContinues
  /\ context' = BeforeChunk(context, in_table, next_chunk, plan.use_validate)
  /\ pc' = "execute"
  /\ UNCHANGED <<plan, jit_operators, in_table, out_table, next_chunk, offered, notScan>>

\* one iteration of the loop of JitReadTuples::execute: read the row, emit it
\* to the chain, advance the chunk offset
ExecuteRow ==
  /\ pc = "execute"
  /\ context.chunk_offset < context.chunk_size
  /\ LET st == Consume(jit_operators, 2,
                       [context |-> ReadValues(context, in_table), out_table |-> out_table])
     IN /\ context' = [st.context EXCEPT !.chunk_offset = @ + 1]
        /\ out_table' = st.out_table
  /\ offered' = Append(offered, <<context.chunk_id, context.chunk_offset>>)
  /\ UNCHANGED <<plan, jit_operators, in_table, next_chunk, pc, notScan>>

\* the row loop is over: the sink's after_chunk, then ++chunk_id
AfterChunk ==
  /\ pc = "execute"
  /\ context.chunk_offset >= context.chunk_size
  /\ next_chunk' = next_chunk + 1
  /\ pc' = "chunk_loop"
  /\ UNCHANGED <<plan, jit_operators, in_table, context, out_table, offered, notScan>>

\* the chunk loop is over: the sink's after_query; JitAggregate writes a row
\* per group
AfterQuery ==
  /\ pc = "chunk_loop"
  /\ ~ChunkLoopContinues
  /\ out_table' = IF _sink.type = "Aggregate" THEN context.groups ELSE out_table
  /\ pc' = "done"
  /\ UNCHANGED <<plan, jit_operators, in_table, context, next_chunk, offered, notScan>>

NextScan ==
  \/ BeforeQuery
  \/ EnterChunk
  \/ ExecuteRow
  \/ AfterChunk
  \/ AfterQuery

SpecScan == InitScan /\ [][NextScan]_vars

(***************************************************************************)
(* What the query is to return, stated on the input table alone.           *)
(***************************************************************************)
Min(a, b) == IF a < b THEN a ELSE b

\* the positions <<chunk_id, chunk_offset>> of the table, in ascending chunk id
\* and, within a chunk, ascending offset
RECURSIVE PositionsFrom(_, _)
PositionsFrom(table, chunk_id) ==
  IF chunk_id >= Len(table.chunks) THEN <<>>
  ELSE [i \in 1..Len(table.chunks[chunk_id + 1]) |-> <<chunk_id, i - 1>>] \o
       PositionsFrom(table, chunk_id + 1)

InputPositions == PositionsFrom(in_table, 0)

KindAt(pos) == CellKind(in_table, in_table.chunks[pos[1] + 1][pos[2] + 1])

\* the row survives the Validate and the Filter of the plan
Survives(pos) ==
  /\ plan.use_validate => ClaimVisible(KindMvcc(KindAt(pos)), 5, 3)
  /\ plan.has_predicate => KindValue(KindAt(pos)) >= 3

Survivors == SelectSeq(InputPositions, Survives)

\* the rows a Write-Tuples sink is to hold: the survivors, projected
ProjectedSurvivors ==
  [i \in 1..Len(Survivors) |->
     <<CellId(in_table, Survivors[i][1], Survivors[i][2]), KindValue(KindAt(Survivors[i])) + 1>>]

\* the rows of the chunks the driver has been through, and of the chunk it is in
Processed(pos) ==
  \/ pos[1] < next_chunk
  \/ pc = "execute" /\ pos[1] = next_chunk /\ pos[2] < context.chunk_offset

\* the number of rows the plan outputs without its Limit
UnlimitedOutputCount ==
  IF plan.last_node = "Aggregate"
  THEN Cardinality({KindValue(KindAt(Survivors[i])) : i \in 1..Len(Survivors)})
  ELSE Len(Survivors)

(***************************************************************************)
(* C2, C3, C4.                                                             *)
(***************************************************************************)
\* C2: over a reference table, a chain Read-Tuples, Validate, Write-Offsets
\* forwards the row at chunk offset i iff the row pos_list[i] of the referenced
\* data table is visible there: the output holds exactly these offsets.
C2_ValidateOnReferenceTable ==
  (/\ pc = "done"
   /\ in_table.type = "References"
   /\ jit_operators = <<Op("ReadTuples"), Op("Validate"), Op("WriteOffsets")>>)
  => LET ReferencedRowVisible(pos) ==
           LET row_id == in_table.chunks[pos[1] + 1][pos[2] + 1]
           IN ClaimVisible(KindMvcc(BaseTable[row_id[1] + 1][row_id[2] + 1]), 5, 3)
     IN out_table = SelectSeq(InputPositions, ReferencedRowVisible)

\* a second chunk whose offset 0 refers to an invisible row and whose offset 1
\* to a visible one, after a first chunk that starts with a visible row
C2_Witness ==
  /\ pc = "done"
  /\ in_table.type = "References"
  /\ jit_operators = <<Op("ReadTuples"), Op("Validate"), Op("WriteOffsets")>>
  /\ in_table.chunks = << <<<<0, 0>>>>, <<<<0, 1>>, <<0, 2>>>> >>
  /\ out_table = << <<0, 0>>, <<1, 1>> >>

\* C3 as stated: any chain that ends in Write-Tuples outputs, in order, the
\* rows that survive Validate and Filter, projected, in ascending chunk id and
\* offset; and the rows emitted to the chain are, in order and once each, the
\* rows of the chunks processed so far. A chain with a Limit does not.
C3_OutputOrderOfAnyChain ==
  /\ offered = SelectSeq(InputPositions, Processed)
  /\ (pc = "done" /\ _sink.type = "WriteTuples") => out_table = ProjectedSurvivors

\* C3, amended: a chain without Limit that ends in Write-Tuples outputs, in
\* order, the rows that survive Validate and Filter, projected, in ascending
\* chunk id and offset; and the rows emitted to any chain are, in order and
\* once each, the rows of the chunks processed so far (every chunk starts at
\* offset 0).
C3_OutputOrder ==
  /\ offered = SelectSeq(InputPositions, Processed)
  /\ (pc = "done" /\ _sink.type = "WriteTuples" /\ ~plan.use_limit)
       => out_table = ProjectedSurvivors

\* two chunks, a row dropped by Validate, a row dropped by Filter, a row written
C3_Witness ==
  /\ pc = "done" /\ _sink.type = "WriteTuples" /\ ~plan.use_limit
  /\ plan.use_validate /\ plan.has_predicate
  /\ Len(in_table.chunks) = 2
  /\ Len(offered) = 3
  /\ Len(out_table) = 1

\* C4: a plan with a Limit of L rows outputs min(L, rows without the Limit)
\* rows, whatever its sink; with L = 0 no chunk is processed.
C4_LimitRowCount ==
  (pc = "done" /\ plan.use_limit)
  => /\ Len(out_table) = Min(plan.num_rows, UnlimitedOutputCount)
     /\ plan.num_rows = 0 => offered = <<>> /\ next_chunk = 0

\* the part of C4 that the chains with a writer as sink meet
LimitRowCountOfWriters ==
  (pc = "done" /\ plan.use_limit /\ plan.last_node # "Aggregate")
  => /\ Len(out_table) = Min(plan.num_rows, UnlimitedOutputCount)
     /\ plan.num_rows = 0 => offered = <<>> /\ next_chunk = 0

(***************************************************************************)
(* SpecValueId, SpecParameters: JitReadTuples registers the operands of    *)
(* predicate and of other expressions, installs literals and parameters,   *)
(* computes the value id of the predicate's operand for every chunk, and   *)
(* reads rows; JitCompute and JitFilter decide each row.                   *)
(***************************************************************************)
MaxValue == 2
MaxChunks == 2
MaxParameterID == 1
MaxParameters == 2

\* INVALID_VALUE_ID and std::numeric_limits<JitValueID>::max(): the largest
\* numbers of their types, above every value id of a dictionary (here the
\* largest number the model checker holds stands for both)
INVALID_VALUE_ID == 2147483647
JitValueIDMax == 2147483647

\* the values of the column are the odd numbers 1, 3, ..: an operand can be
\* below, among, between and above the values of a dictionary
Values == {2 * i - 1 : i \in 1..MaxValue}
LiteralValues == 0..(2 * MaxValue)
ParameterIDs == 0..MaxParameterID
BinaryPredicateTypes ==
  {"Equals", "NotEquals", "LessThan", "LessThanEquals", "GreaterThan", "GreaterThanEquals"}

RECURSIVE SortedSeq(_)
SortedSeq(S) ==
  IF S = {} THEN <<>>
  ELSE LET least == CHOOSE x \in S : \A y \in S : x <= y
       IN <<least>> \o SortedSeq(S \ {least})

\* a dictionary: its distinct values in ascending order; the value id of a
\* value is its index, counted from 0; the value id of NULL is the size
Dictionaries == {SortedSeq(S) : S \in SUBSET Values}
null_value_id(dictionary) == Len(dictionary)

DictionaryTables == UNION {[1..n -> Dictionaries] : n \in 1..MaxChunks}

\* BaseDictionarySegment::lower_bound: the id of the first value >= value
lower_bound(dictionary, value) ==
  LET ids == {i \in 1..Len(dictionary) : dictionary[i] >= value}
  IN IF ids = {} THEN INVALID_VALUE_ID
     ELSE (CHOOSE i \in ids : \A j \in ids : i <= j) - 1

\* BaseDictionarySegment::upper_bound: the id of the first value > value
upper_bound(dictionary, value) ==
  LET ids == {i \in 1..Len(dictionary) : dictionary[i] > value}
  IN IF ids = {} THEN INVALID_VALUE_ID
     ELSE (CHOOSE i \in ids : \A j \in ids : i <= j) - 1

\* the comparison with its operands exchanged
swap_expression_type(expression_type) ==
  CASE expression_type = "LessThan" -> "GreaterThan"
    [] expression_type = "LessThanEquals" -> "GreaterThanEquals"
    [] expression_type = "GreaterThan" -> "LessThan"
    [] expression_type = "GreaterThanEquals" -> "LessThanEquals"
    [] OTHER -> expression_type

\* left expression_type right, on two values that are not null
Compare(expression_type, left, right) ==
  CASE expression_type = "Equals" -> left = right
    [] expression_type = "NotEquals" -> left # right
    [] expression_type = "LessThan" -> left < right
    [] expression_type = "LessThanEquals" -> left <= right
    [] expression_type = "GreaterThan" -> left > right
    [] expression_type = "GreaterThanEquals" -> left >= right

\* the predicates: column expression_type operand, or operand expression_type
\* column when the operand is on the left; the operand is the literal k or the
\* external parameter 0, for which the caller supplies k
ParameterValue(k, parameter_id) == (k + parameter_id) % (2 * MaxValue + 1)

Queries ==
  [expression_type : BinaryPredicateTypes, operand_is_left : BOOLEAN,
   operand : {"Value", "Parameter"}, k : LiteralValues]

\* the map ParameterID -> value the caller hands to set_parameters
SuppliedParameters(q) == [parameter_id \in ParameterIDs |-> ParameterValue(q.k, parameter_id)]

\* the index of the first element of seq that meets Test, 0 if there is none
FindIf(seq, Test(_)) ==
  LET ids == {i \in 1..Len(seq) : Test(seq[i])}
  IN IF ids = {} THEN 0 ELSE CHOOSE i \in ids : \A j \in ids : i <= j

\* the index of the last element of seq that meets Test, 0 if there is none
FindLastIf(seq, Test(_)) ==
  LET ids == {i \in 1..Len(seq) : Test(seq[i])}
  IN IF ids = {} THEN 0 ELSE CHOOSE i \in ids : \A j \in ids : i >= j

(***************************************************************************)
(* Registration. A JitTupleValue is its index in the runtime tuple; an     *)
(* optional index is <<>> or <<i>>, i counted from 0.                      *)
(***************************************************************************)
\* the registers of the JitReadTuples
Registers ==
  [columns |-> _input_columns, literals |-> _input_literals,
   parameters |-> _input_parameters, num_tuple_values |-> _num_tuple_values]

\* add_input_column: the slot of the column, registered once per
\* (column_id, use_value_id)
add_input_column(r, column_id, use_value_id) ==
  LET it == FindIf(r.columns, LAMBDA input_column :
                     input_column.column_id = column_id /\ input_column.use_value_id = use_value_id)
  IN IF it # 0 THEN [registers |-> r, tuple_value |-> r.columns[it].tuple_value]
     ELSE [registers |->
             [r EXCEPT !.columns = Append(@, [column_id |-> column_id,
                                              tuple_value |-> r.num_tuple_values,
                                              use_value_id |-> use_value_id]),
                       !.num_tuple_values = @ + 1],
           tuple_value |-> r.num_tuple_values]

\* add_literal_value: an equal literal that is not in value-id mode is reused
add_literal_value(r, value, use_value_id) ==
  LET it == FindIf(r.literals, LAMBDA literal_value :
                     literal_value.value = value /\ ~literal_value.use_value_id)
  IN IF it # 0 THEN [registers |-> r, tuple_value |-> r.literals[it].tuple_value]
     ELSE [registers |->
             [r EXCEPT !.literals = Append(@, [value |-> value,
                                               tuple_value |-> r.num_tuple_values,
                                               use_value_id |-> use_value_id]),
                       !.num_tuple_values = @ + 1],
           tuple_value |-> r.num_tuple_values]

\* add_parameter_value: the same parameter not in value-id mode is reused
add_parameter_value(r, parameter_id, use_value_id) ==
  LET it == FindIf(r.parameters, LAMBDA parameter :
                     parameter.parameter_id = parameter_id /\ ~parameter.use_value_id)
  IN IF it # 0 THEN [registers |-> r, tuple_value |-> r.parameters[it].tuple_value]
     ELSE [registers |->
             [r EXCEPT !.parameters = Append(@, [parameter_id |-> parameter_id,
                                                 tuple_value |-> r.num_tuple_values,
                                                 use_value_id |-> use_value_id]),
                       !.num_tuple_values = @ + 1],
           tuple_value |-> r.num_tuple_values]

\* add_temporary_value
add_temporary_value(r) ==
  [registers |-> [r EXCEPT !.num_tuple_values = @ + 1], tuple_value |-> r.num_tuple_values]

\* the find of add_value_id_predicate: the last item in value-id mode with
\* this tuple value
FindValueIdItem(vector, tuple_value) ==
  LET it == FindLastIf(vector, LAMBDA item :
                         item.tuple_value = tuple_value /\ item.use_value_id)
  IN IF it = 0 THEN <<>> ELSE <<it - 1>>

\* a mutant: the comparison is never rewritten
RewrittenExpressionTypeUnchanged(expression_type, expression, swap) == expression_type

\* add_value_id_predicate: the type the JitExpression is set to; expression
\* is the type of the predicate with the column on the left
RewrittenExpressionType(expression_type, expression, swap) ==
  IF expression = "GreaterThan"
  THEN (IF swap THEN "LessThan" ELSE "GreaterThanEquals")
  ELSE IF expression = "LessThanEquals"
       THEN (IF swap THEN "GreaterThanEquals" ELSE "LessThan")
       ELSE expression_type

\* add_value_id_predicate: the predicate pushed to _value_id_predicates, the
\* JitExpression as it is afterwards, and whether the DebugAssert holds
add_value_id_predicate(r, expr) ==
  LET column_left == FindValueIdItem(r.columns, expr.left_child)
      swap == column_left = <<>>
      column_id == IF swap THEN FindValueIdItem(r.columns, expr.right_child) ELSE column_left
      non_column_tuple_value == IF swap THEN expr.left_child ELSE expr.right_child
      literal_id == FindValueIdItem(r.literals, non_column_tuple_value)
      parameter_id == IF literal_id = <<>>
                      THEN FindValueIdItem(r.parameters, non_column_tuple_value)
                      ELSE <<>>
      expression == IF swap THEN swap_expression_type(expr.expression_type)
                    ELSE expr.expression_type
  IN [asserted |-> literal_id # <<>> \/ parameter_id # <<>>,
      jit_expression |->
        [expr EXCEPT !.expression_type =
                       RewrittenExpressionType(expr.expression_type, expression, swap)],
      predicate |-> [input_column_index |-> column_id[1],
                     expression_type |-> expression,
                     input_literal_index |-> literal_id,
                     input_parameter_index |-> parameter_id]]

(***************************************************************************)
(* before_query and before_chunk.                                          *)
(***************************************************************************)
Cell(value) == [value |-> value, is_null |-> FALSE]

\* before_query: the literals that are not in value-id mode
RECURSIVE InstallLiterals(_, _)
InstallLiterals(literals, tup) ==
  IF literals = <<>> THEN tup
  ELSE LET input_literal == Head(literals)
       IN InstallLiterals(Tail(literals),
            IF ~input_literal.use_value_id
            THEN [tup EXCEPT ![input_literal.tuple_value + 1] = Cell(input_literal.value)]
            ELSE tup)

\* before_query: the parameters that are not in value-id mode take the value
\* at parameter_value_itr, which moves on only then
RECURSIVE InstallParameters(_, _, _, _)
InstallParameters(parameters, parameter_values, parameter_value_itr, tup) ==
  IF parameters = <<>> THEN tup
  ELSE LET input_parameter == Head(parameters)
       IN IF ~input_parameter.use_value_id
          THEN InstallParameters(Tail(parameters), parameter_values, parameter_value_itr + 1,
                 [tup EXCEPT ![input_parameter.tuple_value + 1] =
                                Cell(parameter_values[parameter_value_itr])])
          ELSE InstallParameters(Tail(parameters), parameter_values, parameter_value_itr, tup)

\* a mutant: Equals and NotEquals do not look whether the value exists
PredicateValueIdNoExistenceCheck(dictionary, expression_type, casted_value) ==
  LET value_id ==
        IF expression_type \in {"LessThanEquals", "GreaterThan"}
        THEN upper_bound(dictionary, casted_value)
        ELSE lower_bound(dictionary, casted_value)
  IN IF value_id = INVALID_VALUE_ID THEN JitValueIDMax ELSE value_id

\* before_chunk: the value id installed for a value-id predicate
PredicateValueId(dictionary, expression_type, casted_value) ==
  LET value_id ==
        IF /\ expression_type \in {"Equals", "NotEquals"}
           /\ lower_bound(dictionary, casted_value) = upper_bound(dictionary, casted_value)
        THEN INVALID_VALUE_ID
        ELSE IF expression_type \in {"LessThanEquals", "GreaterThan"}
             THEN upper_bound(dictionary, casted_value)
             ELSE lower_bound(dictionary, casted_value)
  IN IF value_id = INVALID_VALUE_ID THEN JitValueIDMax ELSE value_id

\* before_chunk: the value and the slot of the operand of a value-id predicate
PredicateOperand(value_id_predicate, parameter_values) ==
  IF value_id_predicate.input_literal_index # <<>>
  THEN LET literal == _input_literals[value_id_predicate.input_literal_index[1] + 1]
       IN [value |-> literal.value, tuple_index |-> literal.tuple_value]
  ELSE LET parameter == _input_parameters[value_id_predicate.input_parameter_index[1] + 1]
       IN [value |-> parameter_values[value_id_predicate.input_parameter_index[1] + 1],
           tuple_index |-> parameter.tuple_value]

RECURSIVE InstallValueIds(_, _, _, _)
InstallValueIds(value_id_predicates, dictionary, parameter_values, tup) ==
  IF value_id_predicates = <<>> THEN tup
  ELSE LET value_id_predicate == Head(value_id_predicates)
           operand == PredicateOperand(value_id_predicate, parameter_values)
       IN InstallValueIds(Tail(value_id_predicates), dictionary, parameter_values,
            [tup EXCEPT ![operand.tuple_index + 1] =
               Cell(PredicateValueId(dictionary, value_id_predicate.expression_type,
                                     operand.value))])

(***************************************************************************)
(* The row: segment reader in value-id mode, JitCompute, JitFilter.        *)
(***************************************************************************)
\* the reader of the attribute vector of a nullable column
ReadValueId(tup, tuple_index, dictionary, value_id) ==
  [tup EXCEPT ![tuple_index + 1] =
     [value |-> value_id, is_null |-> value_id = null_value_id(dictionary)]]

\* JitExpression::compute of a comparison: NULL if an operand is NULL
ComputeComparison(expr, tup) ==
  LET left == tup[expr.left_child + 1]
      right == tup[expr.right_child + 1]
  IN IF left.is_null \/ right.is_null
     THEN [tup EXCEPT ![expr.result + 1] = [value |-> 0, is_null |-> TRUE]]
     ELSE [tup EXCEPT ![expr.result + 1] =
             Cell(IF Compare(expr.expression_type, left.value, right.value) THEN 1 ELSE 0)]

\* JitFilter: the tuple passes iff the condition is true and not NULL
FilterPasses(tup, condition) == ~tup[condition + 1].is_null /\ tup[condition + 1].value = 1

(***************************************************************************)
(* The life of the operator.                                               *)
(***************************************************************************)
InitReadTuples(tables) ==
  /\ IdleValidate /\ IdleScan /\ IdleTranslate /\ IdleTransaction /\ IdleLater
  /\ query \in Queries
  /\ dictionaries \in tables
  /\ _input_columns = <<>> /\ _input_literals = <<>> /\ _input_parameters = <<>>
  /\ _value_id_predicates = <<>> /\ _num_tuple_values = 0
  /\ jit_expression = <<>> /\ _input_parameter_values = <<>> /\ runtime_tuple = <<>>
  /\ read_chunk_id = 0 /\ current_row = <<>>
  /\ rpc = "build"

\* the translation of another expression of the plan registers an external
\* parameter in value mode
AddParameterValue(parameter_id) ==
  /\ rpc = "build"
  /\ Len(_input_parameters) < MaxParameters
  /\ LET added == add_parameter_value(Registers, parameter_id, FALSE)
     IN /\ _input_parameters' = added.registers.parameters
        /\ _num_tuple_values' = added.registers.num_tuple_values
  /\ UNCHANGED <<query, _input_columns, _input_literals, _value_id_predicates,
                 jit_expression, _input_parameter_values, runtime_tuple, dictionaries,
                 read_chunk_id, current_row, rpc, notReadTuples>>

\* _try_translate_expression_to_jit_expression of the predicate with
\* use_value_id: its arguments from left to right, the result slot, and
\* add_value_id_predicate
TranslatePredicate ==
  /\ rpc = "build" /\ jit_expression = <<>>
  /\ query.operand = "Parameter" => Len(_input_parameters) < MaxParameters
  /\ LET Operand(r) == IF query.operand = "Value"
                       THEN add_literal_value(r, query.k, TRUE)
                       ELSE add_parameter_value(r, 0, TRUE)
         left == IF query.operand_is_left THEN Operand(Registers)
                 ELSE add_input_column(Registers, 0, TRUE)
         right == IF query.operand_is_left THEN add_input_column(left.registers, 0, TRUE)
                  ELSE Operand(left.registers)
         result == add_temporary_value(right.registers)
         expr == [left_child |-> left.tuple_value, right_child |-> right.tuple_value,
                  expression_type |-> query.expression_type, result |-> result.tuple_value]
         added == add_value_id_predicate(result.registers, expr)
     IN /\ _input_columns' = result.registers.columns
        /\ _input_literals' = result.registers.literals
        /\ _input_parameters' = result.registers.parameters
        /\ _num_tuple_values' = result.registers.num_tuple_values
        /\ IF added.asserted
           THEN /\ jit_expression' = added.jit_expression
                /\ _value_id_predicates' = Append(_value_id_predicates, added.predicate)
                /\ rpc' = rpc
           ELSE \* DebugAssert: neither input literal nor parameter index set
                /\ jit_expression' = expr
                /\ _value_id_predicates' = _value_id_predicates
                /\ rpc' = "failed"
  /\ UNCHANGED <<query, _input_parameter_values, runtime_tuple, dictionaries,
                 read_chunk_id, current_row, notReadTuples>>

\* JitOperatorWrapper::_on_set_parameters
OnSetParameters ==
  /\ rpc = "build" /\ jit_expression # <<>>
  /\ _input_parameter_values' =
       [i \in 1..Len(_input_parameters) |->
          SuppliedParameters(query)[_input_parameters[i].parameter_id]]
  /\ rpc' = "ready"
  /\ UNCHANGED <<query, _input_columns, _input_literals, _input_parameters,
                 _value_id_predicates, _num_tuple_values, jit_expression, runtime_tuple,
                 dictionaries, read_chunk_id, current_row, notReadTuples>>

\* JitReadTuples::before_query
ReadTuplesBeforeQuery ==
  /\ rpc = "ready"
  /\ runtime_tuple' =
       InstallParameters(_input_parameters, _input_parameter_values, 1,
         InstallLiterals(_input_literals, [i \in 1.._num_tuple_values |-> Cell(0)]))
  /\ rpc' = "query"
  /\ UNCHANGED <<query, _input_columns, _input_literals, _input_parameters,
                 _value_id_predicates, _num_tuple_values, jit_expression,
                 _input_parameter_values, dictionaries, read_chunk_id, current_row,
                 notReadTuples>>

\* JitReadTuples::before_chunk of the first chunk, or of the next one
ReadTuplesBeforeChunk ==
  /\ \/ rpc = "query" /\ read_chunk_id' = 0
     \/ rpc = "chunk" /\ read_chunk_id + 1 < Len(dictionaries)
                      /\ read_chunk_id' = read_chunk_id + 1
  /\ runtime_tuple' = InstallValueIds(_value_id_predicates, dictionaries[read_chunk_id' + 1],
                                      _input_parameter_values, runtime_tuple)
  /\ current_row' = <<>>
  /\ rpc' = "chunk"
  /\ UNCHANGED <<query, _input_columns, _input_literals, _input_parameters,
                 _value_id_predicates, _num_tuple_values, jit_expression,
                 _input_parameter_values, dictionaries, notReadTuples>>

\* one row of JitReadTuples::execute: the row holds value_id
ReadTuplesExecuteRow(value_id) ==
  /\ rpc = "chunk"
  /\ LET dictionary == dictionaries[read_chunk_id + 1]
         column == _input_columns[_value_id_predicates[1].input_column_index + 1]
         computed == ComputeComparison(jit_expression,
                       ReadValueId(runtime_tuple, column.tuple_value, dictionary, value_id))
     IN /\ value_id \in 0..null_value_id(dictionary)
        /\ runtime_tuple' = computed
        /\ current_row' = [value_id |-> value_id,
                           forwarded |-> FilterPasses(computed, jit_expression.result)]
  /\ UNCHANGED <<query, _input_columns, _input_literals, _input_parameters,
                 _value_id_predicates, _num_tuple_values, jit_expression,
                 _input_parameter_values, dictionaries, read_chunk_id, rpc, notReadTuples>>

\* the last chunk is through
ReadTuplesAfterQuery ==
  /\ rpc = "chunk" /\ read_chunk_id + 1 = Len(dictionaries)
  /\ rpc' = "done"
  /\ current_row' = <<>>
  /\ UNCHANGED <<query, _input_columns, _input_literals, _input_parameters,
                 _value_id_predicates, _num_tuple_values, jit_expression,
                 _input_parameter_values, runtime_tuple, dictionaries, read_chunk_id,
                 notReadTuples>>

\* one predicate over a table of dictionary chunks
InitValueId == InitReadTuples(DictionaryTables)

NextValueId ==
  \/ TranslatePredicate
  \/ OnSetParameters
  \/ ReadTuplesBeforeQuery
  \/ ReadTuplesBeforeChunk
  \/ \E value_id \in 0..MaxValue : ReadTuplesExecuteRow(value_id)
  \/ ReadTuplesAfterQuery

SpecValueId == InitValueId /\ [][NextValueId]_vars

\* the predicate and other expressions with parameters, over one chunk
InitParameters == InitReadTuples([{1} -> Dictionaries])

NextParameters ==
  \/ \E parameter_id \in ParameterIDs : AddParameterValue(parameter_id)
  \/ TranslatePredicate
  \/ OnSetParameters
  \/ ReadTuplesBeforeQuery
  \/ ReadTuplesBeforeChunk
  \/ ReadTuplesAfterQuery

SpecParameters == InitParameters /\ [][NextParameters]_vars

(***************************************************************************)
(* C5, C6, C7, C8.                                                         *)
(***************************************************************************)
\* the value of the operand of the predicate
OperandValue == IF query.operand = "Value" THEN query.k ELSE SuppliedParameters(query)[0]

CurrentDictionary == dictionaries[read_chunk_id + 1]
RowRead == rpc = "chunk" /\ current_row # <<>>
RowIsNull == current_row.value_id = null_value_id(CurrentDictionary)
RowValue == CurrentDictionary[current_row.value_id + 1]
DictionaryHolds(dictionary, value) == \E i \in 1..Len(dictionary) : dictionary[i] = value

\* C5: with the column on the left, the filter forwards a row iff the row is
\* not NULL and its decoded value compares to the operand as the predicate
\* says, for every dictionary, value id, operand and comparison.
C5_ValueIdPredicateAsInValueSpace ==
  (RowRead /\ ~query.operand_is_left)
  => current_row.forwarded =
       (~RowIsNull /\ Compare(query.expression_type, RowValue, OperandValue))

\* an operand between two dictionary values under <=, and the row below it
C5_Witness ==
  /\ RowRead /\ ~query.operand_is_left
  /\ query.expression_type = "LessThanEquals"
  /\ CurrentDictionary = <<1, 3>> /\ OperandValue = 2
  /\ current_row.value_id = 0 /\ current_row.forwarded

\* C6: with the operand on the left, the filter forwards a row iff the row is
\* not NULL and the operand compares to its decoded value as the predicate says.
C6_OperandLeftAsInValueSpace ==
  (RowRead /\ query.operand_is_left)
  => current_row.forwarded =
       (~RowIsNull /\ Compare(query.expression_type, OperandValue, RowValue))

\* the comparisons of C6 that the operand on the left does not break
OperandLeftUnrewrittenAsInValueSpace ==
  (RowRead /\ query.operand_is_left
     /\ query.expression_type \notin {"LessThan", "GreaterThanEquals"})
  => current_row.forwarded =
       (~RowIsNull /\ Compare(query.expression_type, OperandValue, RowValue))

\* C7: in a chunk whose dictionary lacks the operand, = forwards no row and
\* != every row that is not NULL; in a chunk whose dictionary holds it, =
\* and != decide as in value space, whatever the chunk before.
C7_LiteralAbsentFromDictionary ==
  (RowRead /\ query.expression_type \in {"Equals", "NotEquals"})
  => IF DictionaryHolds(CurrentDictionary, OperandValue)
     THEN current_row.forwarded =
            (~RowIsNull /\ Compare(query.expression_type, RowValue, OperandValue))
     ELSE current_row.forwarded = (query.expression_type = "NotEquals" /\ ~RowIsNull)

\* the second chunk holds the literal, the first did not, and the row equal to
\* the literal is forwarded
C7_Witness ==
  /\ RowRead /\ query.expression_type = "Equals" /\ query.operand = "Value"
  /\ read_chunk_id = 1
  /\ ~DictionaryHolds(dictionaries[1], OperandValue)
  /\ Len(dictionaries[1]) > 0
  /\ DictionaryHolds(CurrentDictionary, OperandValue)
  /\ current_row.forwarded

\* C8: once before_query ran, every parameter that is not in value-id mode has
\* in its slot the value supplied for its ParameterID; in a chunk, every
\* parameter in value-id mode has the value id of the value supplied for it.
C8_ParametersInstalled ==
  (rpc \in {"query", "chunk", "done"})
  => \A i \in 1..Len(_input_parameters) :
       LET parameter == _input_parameters[i]
           supplied == SuppliedParameters(query)[parameter.parameter_id]
       IN IF ~parameter.use_value_id
          THEN runtime_tuple[parameter.tuple_value + 1] = Cell(supplied)
          ELSE rpc = "chunk" =>
                 runtime_tuple[parameter.tuple_value + 1] =
                   Cell(PredicateValueId(CurrentDictionary,
                                         _value_id_predicates[1].expression_type, supplied))

\* the part of C8 about the parameters in value-id mode
ValueIdParametersInstalled ==
  (rpc = "chunk")
  => \A i \in 1..Len(_input_parameters) :
       LET parameter == _input_parameters[i]
           supplied == SuppliedParameters(query)[parameter.parameter_id]
       IN parameter.use_value_id =>
            runtime_tuple[parameter.tuple_value + 1] =
              Cell(PredicateValueId(CurrentDictionary,
                                    _value_id_predicates[1].expression_type, supplied))

(***************************************************************************)
(* SpecTranslate: JitAwareLQPTranslator::translate_node decides whether    *)
(* the sub-plan under a node is fused into one JitOperatorWrapper.         *)
(***************************************************************************)
MaxNodes == 4

\* the kinds of node: a Predicate is supported when its condition is not In,
\* Like or NotLike, its second argument is jittable and it is a table scan; a
\* Projection when its expressions are jittable; an Aggregate when it has no
\* CountDistinct
UnaryNodes ==
  {[type |-> t, supported |-> TRUE] : t \in {"Validate", "Limit"}} \cup
  [type : {"Predicate", "Projection", "Aggregate"}, supported : BOOLEAN]

\* the nodes that node i of n may be; its inputs are nodes after it, 0 is no input
LQPNodeOptions(i, n) ==
  {[type |-> "StoredTable", supported |-> TRUE, left_input |-> 0, right_input |-> 0]} \cup
  {[type |-> u.type, supported |-> u.supported, left_input |-> l, right_input |-> 0] :
     u \in UnaryNodes, l \in (i + 1)..n} \cup
  {[type |-> "Union", supported |-> TRUE, left_input |-> l, right_input |-> r] :
     l \in (i + 1)..n, r \in (i + 1)..n}

RECURSIVE LQPsFrom(_, _)
LQPsFrom(i, n) ==
  IF i > n THEN {<<>>}
  ELSE {<<node>> \o rest : node \in LQPNodeOptions(i, n), rest \in LQPsFrom(i + 1, n)}

\* every node is an input of a node before it
IsConnected(p) ==
  \A i \in 2..Len(p) : \E j \in 1..(i - 1) : p[j].left_input = i \/ p[j].right_input = i

\* the plans of up to max_nodes nodes
LQPs(max_nodes) == UNION {{p \in LQPsFrom(1, n) : IsConnected(p)} : n \in 1..max_nodes}

\* _node_is_jittable
_node_is_jittable(node, allow_aggregate_node, allow_limit_node) ==
  IF node.type = "Aggregate" THEN allow_aggregate_node /\ node.supported
  ELSE IF node.type = "Predicate" THEN node.supported
  ELSE IF global.jit_validate /\ node.type = "Validate" THEN TRUE
  ELSE IF allow_limit_node /\ node.type = "Limit" THEN TRUE
  ELSE IF node.type = "Projection" THEN node.supported
  ELSE node.type = "Union" /\ global.jit_predicate

\* a mutant: no sub-plan is rejected for being too small
RejectedAsTooSmallNever(node, count) == FALSE

\* the heuristic: a sub-plan of one or two jittable nodes that is not worth it
RejectedAsTooSmall(node, count) ==
  \/ count = 1 /\ node.type \in {"Projection", "Validate", "Limit", "Predicate"}
  \/ count = 2 /\ node.type = "Validate"

\* the node that a JitFilter computes: the first Predicate or Union on the
\* way down the left inputs, or the input node
RECURSIVE FilterNode(_, _)
FilterNode(filter_node, input_node) ==
  IF filter_node # input_node /\ lqp[filter_node].type \notin {"Predicate", "Union"}
  THEN FilterNode(lqp[filter_node].left_input, input_node)
  ELSE filter_node

\* the plan as the chain is assembled from it
AssembledPlan(input_node) ==
  LET use_limit == lqp[1].type = "Limit"
      last_node == IF use_limit THEN lqp[1].left_input ELSE 1
  IN [use_validate |-> use_validate,
      has_predicate |-> FilterNode(1, input_node) # input_node,
      use_limit |-> use_limit,
      last_node |-> IF lqp[last_node].type = "Aggregate" THEN "Aggregate" ELSE "Other"]

(***************************************************************************)
(* The expressions of the sub-plan, as the assembly sees them: what        *)
(* _try_translate_expression_to_jit_expression returns for each (nullptr,  *)
(* a JitExpression of type Column, or one that has to be computed), and    *)
(* whether the input node has the expression as a column.                  *)
(***************************************************************************)
MaxColumns == 2      \* output columns of the root node: 1..MaxColumns

JitExpressionResults == {"nullptr", "Column", "Computed"}

\* a column expression of the root node; what find_column_id finds is
\* translated to a JitExpression of type Column
ColumnExpressions ==
  {[found |-> TRUE, jit_expression |-> "Column"]} \cup
  {[found |-> FALSE, jit_expression |-> t] : t \in JitExpressionResults}

NonEmptySeqs(S, n) == UNION {[1..k -> S] : k \in 1..n}

\* the expressions the assembly of plan p translates
SubPlanExpressions(p) ==
  {[boolean_expression |-> b, group_by_expressions |-> g, aggregate_expressions |-> a,
    column_expressions |-> c] :
     b \in IF p.has_predicate THEN JitExpressionResults ELSE {None},
     g \in IF p.last_node = "Aggregate"
           THEN {<<>>} \cup {<<t>> : t \in JitExpressionResults} ELSE {<<>>},
     a \in IF p.last_node = "Aggregate"
           THEN {<<t>> : t \in {"count(*)"} \cup JitExpressionResults} ELSE {<<>>},
     c \in IF p.last_node = "Aggregate" THEN {<<>>}
           ELSE NonEmptySeqs(ColumnExpressions, MaxColumns)}

\* a sink with the output columns added to it, by their position in
\* node->column_expressions()
Writer(type, columns) == [type |-> type, expr |-> columns]

\* a JitCompute for every expression of the sequence that is not of type
\* Column (count(*) has no expression)
RECURSIVE ComputeOperators(_, _)
ComputeOperators(jit_expressions, name) ==
  IF jit_expressions = <<>> THEN <<>>
  ELSE (IF Head(jit_expressions) \in {"Column", "count(*)"} THEN <<>> ELSE <<Compute(name)>>) \o
       ComputeOperators(Tail(jit_expressions), name)

\* a mutant: the output is materialized only if its first column is computed
OutputMustBeMaterializedFirstColumn(column_expressions) == ~column_expressions[1].found

\* output_must_be_materialized: some column expression is not a column of the
\* input node
OutputMustBeMaterialized(column_expressions) ==
  \E i \in 1..Len(column_expressions) : ~column_expressions[i].found

\* a mutant: the filter comes before the JitCompute of its expression
FilterOperatorsFilterFirst(p, e) ==
  IF p.has_predicate
  THEN <<Op("Filter")>> \o ComputeOperators(<<e.boolean_expression>>, "predicate")
  ELSE <<>>

\* lines 167-188: JitCompute unless the expression is of type Column, JitFilter
FilterOperators(p, e) ==
  IF p.has_predicate
  THEN ComputeOperators(<<e.boolean_expression>>, "predicate") \o <<Op("Filter")>>
  ELSE <<>>

\* lines 190-233: the operators of an Aggregate as last node
AggregateOperators(e) ==
  ComputeOperators(e.group_by_expressions, "groupby") \o
  ComputeOperators(e.aggregate_expressions, "aggregate") \o
  <<Op("Aggregate")>>

\* lines 235-270: limit, computes and writer
WriteOperators(p, e) ==
  (IF p.use_limit THEN <<Op("Limit")>> ELSE <<>>) \o
  (IF OutputMustBeMaterialized(e.column_expressions)
   THEN ComputeOperators([i \in 1..Len(e.column_expressions) |->
                            e.column_expressions[i].jit_expression], "output") \o
        <<Writer("WriteTuples", [i \in 1..Len(e.column_expressions) |-> i])>>
   ELSE <<Writer("WriteOffsets", [i \in 1..Len(e.column_expressions) |-> i])>>)

\* the chain of lines 138-272
JitOperators(p, e) ==
  <<Op("ReadTuples")>> \o
  (IF p.use_validate THEN <<Op("Validate")>> ELSE <<>>) \o
  FilterOperators(p, e) \o
  (IF p.last_node = "Aggregate" THEN AggregateOperators(e) ELSE WriteOperators(p, e))

IsNullptr(jit_expressions) ==
  \E i \in 1..Len(jit_expressions) : jit_expressions[i] = "nullptr"

\* an expression the assembly needs has no translation: return nullptr
TranslationFails(p, e) ==
  \/ p.has_predicate /\ e.boolean_expression = "nullptr"
  \/ p.last_node = "Aggregate" /\ IsNullptr(e.group_by_expressions \o e.aggregate_expressions)
  \/ /\ p.last_node # "Aggregate"
     /\ OutputMustBeMaterialized(e.column_expressions)
     /\ \E i \in 1..Len(e.column_expressions) :
          e.column_expressions[i].jit_expression = "nullptr"

InitTranslate ==
  /\ IdleValidate /\ IdleScan /\ IdleReadTuples /\ IdleTransaction /\ IdleLater
  /\ lqp \in LQPs(MaxNodes)
  /\ global \in [jit_validate : BOOLEAN, jit_predicate : BOOLEAN]
  /\ queue = <<1>> /\ visited = {} /\ input_nodes = {}
  /\ jittable_node_count = 0 /\ use_validate = FALSE /\ allow_aggregate = TRUE
  /\ translated = None
  /\ tpc = "visit"

\* one turn of the loop of _visit, with the lambda of
\* _try_translate_sub_plan_to_jit_operators
Visit ==
  /\ tpc = "visit" /\ queue # <<>>
  /\ LET current_node == Head(queue)
     IN IF current_node = 0 \/ current_node \in visited
        THEN /\ queue' = Tail(queue)
             /\ UNCHANGED <<visited, input_nodes, jittable_node_count, use_validate,
                            allow_aggregate>>
        ELSE /\ visited' = visited \cup {current_node}
             /\ IF _node_is_jittable(lqp[current_node], allow_aggregate, current_node = 1)
                THEN /\ use_validate' = (use_validate \/ lqp[current_node].type = "Validate")
                     /\ jittable_node_count' = jittable_node_count + 1
                     /\ allow_aggregate' =
                          (allow_aggregate /\ lqp[current_node].type = "Limit")
                     /\ queue' = Tail(queue) \o <<lqp[current_node].left_input,
                                                  lqp[current_node].right_input>>
                     /\ UNCHANGED input_nodes
                ELSE /\ input_nodes' = input_nodes \cup {current_node}
                     /\ queue' = Tail(queue)
                     /\ UNCHANGED <<use_validate, jittable_node_count, allow_aggregate>>
  /\ UNCHANGED <<lqp, global, translated, tpc, notTranslate>>

\* what translate_node returns when the sub-plan is not fused
ByLQPTranslator ==
  [by |-> "LQPTranslator", jit_operators |-> <<>>, input_node |-> 0, plan |-> None,
   expressions |-> None]

\* the traversal is over and the acceptance rules turn the sub-plan down
RejectSubPlan ==
  /\ tpc = "visit" /\ queue = <<>>
  /\ \/ Cardinality(input_nodes) # 1 \/ jittable_node_count < 1
     \/ RejectedAsTooSmall(lqp[1], jittable_node_count)
  /\ translated' = ByLQPTranslator
  /\ tpc' = "done"
  /\ UNCHANGED <<lqp, global, queue, visited, input_nodes, jittable_node_count,
                 use_validate, allow_aggregate, notTranslate>>

\* the traversal is over and the sub-plan is accepted: the chain, or no chain
\* when one of its expressions has no translation
Translate ==
  /\ tpc = "visit" /\ queue = <<>>
  /\ ~(\/ Cardinality(input_nodes) # 1 \/ jittable_node_count < 1
       \/ RejectedAsTooSmall(lqp[1], jittable_node_count))
  /\ LET input_node == CHOOSE n \in input_nodes : TRUE
         p == AssembledPlan(input_node)
     IN \E e \in SubPlanExpressions(p) :
          translated' =
            IF TranslationFails(p, e) THEN ByLQPTranslator
            ELSE [by |-> "JitAwareLQPTranslator", jit_operators |-> JitOperators(p, e),
                  input_node |-> input_node, plan |-> p, expressions |-> e]
  /\ tpc' = "done"
  /\ UNCHANGED <<lqp, global, queue, visited, input_nodes, jittable_node_count,
                 use_validate, allow_aggregate, notTranslate>>

NextTranslate ==
  \/ Visit
  \/ RejectSubPlan
  \/ Translate

SpecTranslate == InitTranslate /\ [][NextTranslate]_vars

(***************************************************************************)
(* C9, C10.                                                                *)
(***************************************************************************)
Fused == translated.by = "JitAwareLQPTranslator"
FusedNodes == visited \ input_nodes

\* C9: a chain is returned only if the traversal ended in exactly one
\* non-jittable node and collected a jittable node; none is returned for one
\* jittable node under a Projection, Validate, Limit or Predicate root, nor for
\* two under a Validate root; without a chain the stock translator translates.
C9_AcceptanceRules ==
  (tpc = "done")
  => /\ Fused => Cardinality(input_nodes) = 1 /\ jittable_node_count >= 1
     /\ (jittable_node_count = 1
           /\ lqp[1].type \in {"Projection", "Validate", "Limit", "Predicate"}) => ~Fused
     /\ (jittable_node_count = 2 /\ lqp[1].type = "Validate") => ~Fused
     /\ ~Fused => translated.by = "LQPTranslator"

\* a Validate over a Predicate over a table: one input node, two jittable
\* nodes, and the stock translator
C9_Witness ==
  /\ tpc = "done"
  /\ Len(lqp) = 3 /\ lqp[1].type = "Validate" /\ lqp[2].type = "Predicate"
  /\ Cardinality(input_nodes) = 1 /\ jittable_node_count = 2
  /\ translated.by = "LQPTranslator"

\* C10: in a fused sub-plan a Limit is the root and an Aggregate is the root;
\* a Limit or Aggregate anywhere else ends the traversal as an input node; an
\* Aggregate operator is the last of its chain.
C10_LimitAndAggregateOnlyAtRoot ==
  (tpc = "done" /\ Fused)
  => /\ \A n \in FusedNodes : lqp[n].type \in {"Limit", "Aggregate"} => n = 1
     /\ \A n \in visited \ {1} : lqp[n].type \in {"Limit", "Aggregate"} => n \in input_nodes
     /\ \A i \in 1..Len(translated.jit_operators) :
          translated.jit_operators[i].type = "Aggregate" => i = Len(translated.jit_operators)

\* what of C10 the translator keeps: a Limit only as the root, an Aggregate
\* only as the root or as the input of a Limit root, the operator last
AggregateAtRootOrUnderLimit ==
  (tpc = "done" /\ Fused)
  => /\ \A n \in FusedNodes : lqp[n].type = "Limit" => n = 1
     /\ \A n \in FusedNodes : lqp[n].type = "Aggregate" =>
          n = 1 \/ (lqp[1].type = "Limit" /\ lqp[1].left_input = n)
     /\ \A i \in 1..Len(translated.jit_operators) :
          translated.jit_operators[i].type = "Aggregate" => i = Len(translated.jit_operators)

(***************************************************************************)
(* C11, C12: the order of the operators of a returned chain and its sink.  *)
(***************************************************************************)
OperatorTypes(operators) == [i \in 1..Len(operators) |-> operators[i].type]

AllCompute(types) == \A i \in 1..Len(types) : types[i] = "Compute"

\* JitComputes and a JitAggregate last, or an optional JitLimit, JitComputes
\* and one writer last
SinkGrammar(types) ==
  /\ types # <<>>
  /\ LET front == SubSeq(types, 1, Len(types) - 1)
     IN \/ types[Len(types)] = "Aggregate" /\ AllCompute(front)
        \/ /\ types[Len(types)] \in {"WriteTuples", "WriteOffsets"}
           /\ \/ AllCompute(front)
              \/ front # <<>> /\ front[1] = "Limit" /\ AllCompute(Tail(front))

\* JitReadTuples first, then JitValidate iff a Validate node was collected
SourceGrammar(types, validate) ==
  /\ Len(types) >= (IF validate THEN 2 ELSE 1)
  /\ types[1] = "ReadTuples"
  /\ validate => types[2] = "Validate"
  /\ \A i \in 1..Len(types) : /\ types[i] = "ReadTuples" => i = 1
                              /\ types[i] = "Validate" => validate /\ i = 2

\* the operators after the source and the JitValidate
AfterSource(types, validate) ==
  SubSeq(types, (IF validate THEN 3 ELSE 2), Len(types))

C12_Sink ==
  (tpc = "done" /\ Fused /\ translated.plan.last_node # "Aggregate")
  => LET sink == translated.jit_operators[Len(translated.jit_operators)]
         column_expressions == translated.expressions.column_expressions
     IN /\ sink.type \in {"WriteTuples", "WriteOffsets"}
        /\ sink.type = "WriteOffsets" <=>
             \A i \in 1..Len(column_expressions) : column_expressions[i].found
        /\ sink.expr = [i \in 1..Len(column_expressions) |-> i]

\* a JitWriteTuples for a root whose first column is a column of the input
\* node and whose second is computed
C12_Witness ==
  /\ tpc = "done" /\ Fused /\ translated.plan.last_node # "Aggregate"
  /\ Len(translated.expressions.column_expressions) = 2
  /\ translated.expressions.column_expressions[1].found
  /\ translated.expressions.column_expressions[2] =
       [found |-> FALSE, jit_expression |-> "Computed"]
  /\ translated.jit_operators[Len(translated.jit_operators)] =
       Writer("WriteTuples", <<1, 2>>)

(***************************************************************************)
(* Expression lowering: _try_translate_expression_to_jit_expression.       *)
(* An LQP expression is a record with its type and arguments; a value is   *)
(* [data_type, v], a string being numbered; a JitExpression is a record    *)
(* with its expression_type, children, result slot and data type, and      *)
(* nullptr is the JitExpression of type "nullptr".                         *)
(***************************************************************************)
\* the segment of chunk 0 is a BaseEncodedSegment
IsBaseEncodedSegment(encoding) == encoding # "Unencoded"

\* the segment is a BaseDictionarySegment
IsBaseDictionarySegment(encoding) == encoding = "Dictionary"

variant_is_null(value) == value.data_type = "Null"

\* line 314: the cast the column of a value-id predicate has to pass
IsValueIdSegment(encoding) == IsBaseEncodedSegment(encoding)

\* can_translate_predicate_to_predicate_value_id_expression: the loop over
\* the arguments, found_input_column being whether a column was met
RECURSIVE ArgumentsAllowValueId(_, _)
ArgumentsAllowValueId(arguments, found_input_column) ==
  IF arguments = <<>> THEN found_input_column
  ELSE LET argument == Head(arguments)
       IN CASE argument.type \in {"Value", "Parameter"} ->
                 ArgumentsAllowValueId(Tail(arguments), found_input_column)
            [] argument.type = "LQPColumn" ->
                 IF found_input_column THEN FALSE
                 ELSE IF argument.original_node # "StoredTable" THEN FALSE
                 ELSE IF ~IsValueIdSegment(argument.encoding) THEN FALSE
                 ELSE ArgumentsAllowValueId(Tail(arguments), TRUE)
            [] OTHER -> FALSE

can_translate_predicate_to_predicate_value_id_expression(expression, input_node) ==
  IF input_node # "StoredTable" THEN FALSE
  ELSE IF expression.predicate_condition \in {"In", "Like", "NotLike"} THEN FALSE
  ELSE ArgumentsAllowValueId(expression.arguments, FALSE)

\* the state of the JitReadTuples during the lowering: its registers, the
\* data type of every tuple value, the value-id predicates, and whether a
\* DebugAssert of add_value_id_predicate has failed
LoweringState ==
  [registers |-> Registers, data_types |-> <<>>, value_id_predicates |-> _value_id_predicates,
   asserted |-> TRUE]

\* the JitTupleValue made by a registration: its data type is kept if the
\* registration made a new tuple value
Registered(st, added, data_type) ==
  [st EXCEPT !.registers = added.registers,
             !.data_types = IF added.registers.num_tuple_values > st.registers.num_tuple_values
                            THEN Append(@, data_type) ELSE @]

nullptr == [expression_type |-> "nullptr", children |-> <<>>, result |-> 0, data_type |-> "Null"]

\* JitExpression(tuple_value): a leaf of type Column
JitColumn(st, tuple_value) ==
  [expression_type |-> "Column", children |-> <<>>, result |-> tuple_value,
   data_type |-> st.data_types[tuple_value + 1]]

\* _expression_to_jit_expression_type
ExpressionToJitExpressionType(expression) ==
  CASE expression.type = "Predicate" -> expression.predicate_condition
    [] expression.type = "Logical" -> expression.logical_operator
    [] expression.type = "Arithmetic" -> expression.arithmetic_operator

\* JitExpression::_compute_result_type: a comparison, IsNull, IsNotNull and a
\* logical expression are Bool, an arithmetic expression has the type of its
\* operands
ComputeResultType(jit_expression_type, arguments) ==
  IF jit_expression_type \in {"Addition"} THEN arguments[1].data_type ELSE "Bool"

\* a JitExpression with children and a new temporary value as its result
JitNode(st, jit_expression_type, arguments) ==
  LET result == add_temporary_value(st.registers)
      data_type == ComputeResultType(jit_expression_type, arguments)
  IN [st |-> Registered(st, result, data_type),
      expr |-> [expression_type |-> jit_expression_type, children |-> arguments,
                result |-> result.tuple_value, data_type |-> data_type]]

\* add_value_id_predicate for a comparison node: the predicate is pushed and
\* the node's type rewritten
WithValueIdPredicate(node) ==
  LET added == add_value_id_predicate(node.st.registers,
                 [left_child |-> node.expr.children[1].result,
                  right_child |-> node.expr.children[2].result,
                  expression_type |-> node.expr.expression_type,
                  result |-> node.expr.result])
  IN [st |-> [node.st EXCEPT !.value_id_predicates = Append(@, added.predicate),
                             !.asserted = @ /\ added.asserted],
      expr |-> [node.expr EXCEPT !.expression_type = added.jit_expression.expression_type]]

\* a mutant: a zero of any data type is collapsed
IsNotEqualsZeroOfAnyType(expression) ==
  /\ expression.predicate_condition = "NotEquals"
  /\ expression.arguments[2].type = "Value"
  /\ expression.arguments[2].value.v = 0
  /\ ~variant_is_null(expression.arguments[2].value)

\* the collapse of lines 365-373: NotEquals with a Value argument 1 that is
\* the Int 0 and not null
IsNotEqualsZero(expression) ==
  /\ expression.predicate_condition = "NotEquals"
  /\ expression.arguments[2].type = "Value"
  /\ expression.arguments[2].value.data_type = "Int"
  /\ expression.arguments[2].value.v = 0
  /\ ~variant_is_null(expression.arguments[2].value)

RECURSIVE TryTranslateExpression(_, _, _, _, _)
RECURSIVE TranslateArguments(_, _, _, _, _)

\* lines 379-389: the arguments from left to right, until one has no
\* translation
TranslateArguments(arguments, st, input_node, use_value_id, translated_arguments) ==
  IF arguments = <<>> THEN [st |-> st, arguments |-> translated_arguments, ok |-> TRUE]
  ELSE LET argument == TryTranslateExpression(Head(arguments), st, input_node,
                                              use_value_id, FALSE)
       IN IF argument.expr = nullptr
          THEN [st |-> argument.st, arguments |-> translated_arguments, ok |-> FALSE]
          ELSE TranslateArguments(Tail(arguments), argument.st, input_node, use_value_id,
                                  Append(translated_arguments, argument.expr))

\* lines 407-421: Between as the conjunction of two comparisons of the first
\* argument, a = <<value, lower bound, upper bound>>
TranslateBetween(st, a, use_value_id) ==
  LET lower_bound_check == JitNode(st, "GreaterThanEquals", <<a[1], a[2]>>)
      upper_bound_check ==
        JitNode(lower_bound_check.st, "LessThanEquals", <<a[1], a[3]>>)
      lower == IF use_value_id
               THEN WithValueIdPredicate([st |-> upper_bound_check.st,
                                          expr |-> lower_bound_check.expr])
               ELSE [st |-> upper_bound_check.st, expr |-> lower_bound_check.expr]
      upper == IF use_value_id
               THEN WithValueIdPredicate([st |-> lower.st,
                                          expr |-> upper_bound_check.expr])
               ELSE [st |-> lower.st, expr |-> upper_bound_check.expr]
  IN JitNode(upper.st, "And", <<lower.expr, upper.expr>>)

\* a comparison or a binary operation in value-id mode registers its
\* value-id predicate
WithValueIds(node, use_value_id) ==
  IF use_value_id THEN WithValueIdPredicate(node) ELSE node

\* lines 391-425: the expression built from the translated arguments args
TranslatedCompound(args, jit_expression_type, use_value_id) ==
  IF ~args.ok THEN [st |-> args.st, expr |-> nullptr]
  ELSE IF Len(args.arguments) = 1
       THEN JitNode(args.st, jit_expression_type, args.arguments)
  ELSE IF Len(args.arguments) = 2
       THEN IF (args.arguments[1].data_type = "String")
                 # (args.arguments[2].data_type = "String")
            THEN [st |-> args.st, expr |-> nullptr]
            ELSE WithValueIds(JitNode(args.st, jit_expression_type, args.arguments),
                              use_value_id)
  ELSE TranslateBetween(args.st, args.arguments, use_value_id)

\* lines 376-425: an expression with arguments
TranslateCompound(expression, st, input_node, use_value_id) ==
  TranslatedCompound(
    TranslateArguments(expression.arguments, st, input_node, use_value_id, <<>>),
    ExpressionToJitExpressionType(expression), use_value_id)

\* _try_translate_expression_to_jit_expression; every expression that is a
\* column of the input node is an LQPColumn here
TryTranslateExpression(expression, st, input_node, use_value_id, can_be_bool_column) ==
  CASE expression.type = "LQPColumn" ->
         LET data_type == IF can_be_bool_column THEN "Bool" ELSE expression.data_type
             added == add_input_column(st.registers, expression.column_id, use_value_id)
             registered == Registered(st, added,
                                      IF use_value_id THEN "ValueID" ELSE data_type)
         IN [st |-> registered, expr |-> JitColumn(registered, added.tuple_value)]
    [] expression.type = "Value" ->
         LET added == add_literal_value(st.registers, expression.value, use_value_id)
             registered == Registered(st, added,
                                      IF use_value_id THEN "ValueID"
                                      ELSE expression.value.data_type)
         IN [st |-> registered, expr |-> JitColumn(registered, added.tuple_value)]
    [] expression.type = "Parameter" ->
         LET added == add_parameter_value(st.registers, expression.parameter_id, use_value_id)
             registered == Registered(st, added,
                                      IF use_value_id THEN "ValueID" ELSE expression.data_type)
         IN [st |-> registered, expr |-> JitColumn(registered, added.tuple_value)]
    [] expression.type = "Predicate" ->
         IF IsNotEqualsZero(expression)
         THEN TryTranslateExpression(expression.arguments[1], st, input_node, FALSE, TRUE)
         ELSE TranslateCompound(expression, st, input_node,
                can_translate_predicate_to_predicate_value_id_expression(expression,
                                                                         input_node))
    [] expression.type \in {"Arithmetic", "Logical"} ->
         TranslateCompound(expression, st, input_node, use_value_id)
    [] OTHER -> [st |-> st, expr |-> nullptr]

(***************************************************************************)
(* The filter expressions that are lowered.                                *)
(***************************************************************************)
EncodingTypes == {"Unencoded", "Dictionary", "RunLength"}

LQPColumn(column_id, data_type, is_nullable, encoding, original_node) ==
  [type |-> "LQPColumn", column_id |-> column_id, data_type |-> data_type,
   is_nullable |-> is_nullable, encoding |-> encoding, original_node |-> original_node]

Value(data_type, v) == [type |-> "Value", value |-> [data_type |-> data_type, v |-> v]]

NullValue == Value("Null", 0)

ExternalParameter(parameter_id, data_type) ==
  [type |-> "Parameter", parameter_id |-> parameter_id, data_type |-> data_type]

Predicate(predicate_condition, arguments) ==
  [type |-> "Predicate", predicate_condition |-> predicate_condition,
   arguments |-> arguments]

Logical(logical_operator, arguments) ==
  [type |-> "Logical", logical_operator |-> logical_operator, arguments |-> arguments]

Arithmetic(arithmetic_operator, arguments) ==
  [type |-> "Arithmetic", arithmetic_operator |-> arithmetic_operator,
   arguments |-> arguments]

\* the input node and the node a column comes from
InputNodes ==
  {[input_node |-> "StoredTable", original_node |-> "StoredTable"],
   [input_node |-> "Other", original_node |-> "StoredTable"],
   [input_node |-> "Other", original_node |-> "Other"]}

\* the operand a column is compared with
Operand(kind, data_type, v, original_node) ==
  CASE kind = "Value" -> Value(data_type, v)
    [] kind = "Parameter" -> ExternalParameter(0, data_type)
    [] kind = "LQPColumn" -> LQPColumn(1, data_type, TRUE, "Dictionary", original_node)
    [] kind = "Arithmetic" ->
         Arithmetic("Addition", <<LQPColumn(1, data_type, TRUE, "Unencoded", original_node),
                                  Value(data_type, 1)>>)

\* one predicate on column 0: a comparison with the operand on either side,
\* a Between with two operands, IsNull or IsNotNull
PredicateQueries ==
  UNION {
    {[family |-> "Predicate", input_node |-> n.input_node,
      expression |->
        LET column == LQPColumn(0, data_type, TRUE, encoding, n.original_node)
            operand == Operand(kind, data_type, 1, n.original_node)
        IN CASE predicate_condition \in BinaryPredicateTypes ->
                  Predicate(predicate_condition,
                            IF operand_is_left THEN <<operand, column>>
                            ELSE <<column, operand>>)
             [] predicate_condition = "Between" ->
                  Predicate("Between", <<column, operand, Operand(kind, data_type, 2,
                                                                  n.original_node)>>)
             [] OTHER -> Predicate(predicate_condition, <<column>>)] :
       n \in InputNodes, encoding \in EncodingTypes,
       data_type \in IF kind = "Arithmetic" THEN {"Int"} ELSE {"Int", "String"},
       operand_is_left \in BOOLEAN,
       predicate_condition \in BinaryPredicateTypes \cup {"Between", "IsNull", "IsNotNull"}} :
    kind \in {"Value", "Parameter", "LQPColumn", "Arithmetic"}}

\* column 0 = literal And column 1 = literal, on a stored table
ConjunctionQueries ==
  {[family |-> "Conjunction", input_node |-> "StoredTable",
    expression |->
      Logical("And",
        <<Predicate("Equals", <<LQPColumn(0, data_type, TRUE, e[1], "StoredTable"),
                                Value(data_type, v[1])>>),
          Predicate("Equals", <<LQPColumn(1, data_type, TRUE, e[2], "StoredTable"),
                                Value(data_type, v[2])>>)>>)] :
     data_type \in {"Int", "String"},
     e \in {"Unencoded", "Dictionary"} \X {"Unencoded", "Dictionary"},
     v \in (1..2) \X (1..2)}

\* expr != literal and literal != expr, expr a column or a predicate and the
\* literal a zero or not
ZeroLiterals == {Value("Int", 0), Value("Int", 1), Value("Long", 0), NullValue}

NotEqualsQueries ==
  {[family |-> "NotEquals", input_node |-> "StoredTable",
    expression |->
      Predicate("NotEquals", IF literal_is_left THEN <<literal, expr>>
                             ELSE <<expr, literal>>)] :
     literal \in ZeroLiterals, literal_is_left \in BOOLEAN,
     expr \in {LQPColumn(0, "Int", is_nullable, encoding, "StoredTable") :
                 is_nullable \in BOOLEAN, encoding \in {"Unencoded", "Dictionary"}}
              \cup {Predicate(predicate_condition,
                              <<LQPColumn(0, "Int", TRUE, "Unencoded", "StoredTable"),
                                LQPColumn(1, "Int", TRUE, "Unencoded", "StoredTable")>>) :
                      predicate_condition \in {"GreaterThan", "Equals"}}
              \cup {Predicate("IsNull",
                              <<LQPColumn(0, "Int", TRUE, "Unencoded", "StoredTable")>>)}}

\* x BETWEEN lo AND hi, x column 0, lo and hi a literal, NULL or column 1
BetweenBounds ==
  {Value("Int", v) : v \in 0..MaxValue} \cup
  {NullValue, LQPColumn(1, "Int", TRUE, "Unencoded", "StoredTable")}

BetweenQueries ==
  {[family |-> "Between", input_node |-> "StoredTable",
    expression |->
      Predicate("Between",
                <<LQPColumn(0, "Int", TRUE, "Unencoded", "StoredTable"), lo, hi>>)] :
     lo \in BetweenBounds, hi \in BetweenBounds}

LowerQueries == PredicateQueries \cup ConjunctionQueries \cup NotEqualsQueries
                  \cup BetweenQueries

\* the LQPColumn expressions of an expression
RECURSIVE ColumnsOf(_)
ColumnsOf(expression) ==
  IF expression.type = "LQPColumn" THEN {expression}
  ELSE IF expression.type \in {"Value", "Parameter"} THEN {}
  ELSE UNION {ColumnsOf(expression.arguments[i]) : i \in 1..Len(expression.arguments)}

\* the column of the table with this id
TableColumn(column_id) ==
  CHOOSE column \in ColumnsOf(query.expression) : column.column_id = column_id

(***************************************************************************)
(* The lowered expression at work: before_query, the readers, JitCompute   *)
(* and JitFilter on a row.                                                 *)
(***************************************************************************)
NullCell == [value |-> 0, is_null |-> TRUE]

\* set_value_from_input of before_query
SetValueFromInput(value) == IF value.data_type = "Null" THEN NullCell ELSE Cell(value.v)

RECURSIVE InstallLiteralValues(_, _)
InstallLiteralValues(literals, tup) ==
  IF literals = <<>> THEN tup
  ELSE LET input_literal == Head(literals)
       IN InstallLiteralValues(Tail(literals),
            IF ~input_literal.use_value_id
            THEN [tup EXCEPT ![input_literal.tuple_value + 1] =
                               SetValueFromInput(input_literal.value)]
            ELSE tup)

\* add_input_segment_iterators: a column in value-id mode whose segment is
\* not a dictionary
NotADictionary ==
  \E i \in 1..Len(_input_columns) :
    /\ _input_columns[i].use_value_id
    /\ ~IsBaseDictionarySegment(TableColumn(_input_columns[i].column_id).encoding)

\* add_input_segment_iterators: a Bool tuple value for a nullable column
BoolColumnIsNull ==
  \E i \in 1..Len(_input_columns) :
    /\ ~_input_columns[i].use_value_id
    /\ _input_columns[i].data_type = "Bool"
    /\ TableColumn(_input_columns[i].column_id).is_nullable

\* the values of the columns in a row: NULL only in a nullable column
RowCells == {NullCell} \cup {Cell(v) : v \in 0..MaxValue}

Rows ==
  {row \in [0..1 -> RowCells] :
     \A column \in ColumnsOf(query.expression) :
       row[column.column_id].is_null => column.is_nullable}

\* the segment readers: the value of each input column in its tuple value, a
\* Bool tuple value being true for every value but 0
RECURSIVE ReadRow(_, _, _)
ReadRow(input_columns, row, tup) ==
  IF input_columns = <<>> THEN tup
  ELSE LET input_column == Head(input_columns)
           cell == row[input_column.column_id]
       IN ReadRow(Tail(input_columns), row,
            [tup EXCEPT ![input_column.tuple_value + 1] =
               IF input_column.data_type = "Bool" /\ ~cell.is_null
               THEN Cell(IF cell.value # 0 THEN 1 ELSE 0) ELSE cell])

Bool(b) == Cell(IF b THEN 1 ELSE 0)

\* JitExpression::compute of And and Or: three-valued logic
ComputeLogical(expression_type, left, right) ==
  LET IsFalse(cell) == ~cell.is_null /\ cell.value = 0
      IsTrue(cell) == ~cell.is_null /\ cell.value # 0
  IN IF expression_type = "And"
     THEN (IF IsFalse(left) \/ IsFalse(right) THEN Bool(FALSE)
           ELSE IF left.is_null \/ right.is_null THEN NullCell ELSE Bool(TRUE))
     ELSE (IF IsTrue(left) \/ IsTrue(right) THEN Bool(TRUE)
           ELSE IF left.is_null \/ right.is_null THEN NullCell ELSE Bool(FALSE))

\* JitExpression::compute: the children first, then the result of the node in
\* its tuple value
RECURSIVE ComputeExpression(_, _)
ComputeExpression(expr, tup) ==
  IF expr.expression_type = "Column" THEN tup
  ELSE IF Len(expr.children) = 1
  THEN LET computed == ComputeExpression(expr.children[1], tup)
           child == computed[expr.children[1].result + 1]
       IN [computed EXCEPT ![expr.result + 1] =
             Bool(IF expr.expression_type = "IsNull" THEN child.is_null
                  ELSE ~child.is_null)]
  ELSE LET computed == ComputeExpression(expr.children[2],
                                         ComputeExpression(expr.children[1], tup))
           left == computed[expr.children[1].result + 1]
           right == computed[expr.children[2].result + 1]
       IN [computed EXCEPT ![expr.result + 1] =
             IF expr.expression_type \in {"And", "Or"}
             THEN ComputeLogical(expr.expression_type, left, right)
             ELSE IF left.is_null \/ right.is_null THEN NullCell
             ELSE IF expr.expression_type = "Addition" THEN Cell(left.value + right.value)
             ELSE Bool(Compare(expr.expression_type, left.value, right.value))]

(***************************************************************************)
(* The life of a lowered filter expression.                                *)
(***************************************************************************)
InitLower ==
  /\ IdleValidate /\ IdleScan /\ IdleTranslate /\ IdleTransaction /\ IdleLater
  /\ query \in LowerQueries
  /\ _input_columns = <<>> /\ _input_literals = <<>> /\ _input_parameters = <<>>
  /\ _value_id_predicates = <<>> /\ _num_tuple_values = 0
  /\ jit_expression = <<>> /\ _input_parameter_values = <<>> /\ runtime_tuple = <<>>
  /\ dictionaries = <<>> /\ read_chunk_id = 0 /\ current_row = <<>>
  /\ rpc = "build"

\* lines 167-181: the boolean expression of the filter is translated; nullptr
\* makes _try_translate_sub_plan_to_jit_operators return nullptr. A failed
\* DebugAssert of add_value_id_predicate ends a debug build.
LowerExpression ==
  /\ rpc = "build"
  /\ \E lowered \in {TryTranslateExpression(query.expression, LoweringState,
                                             query.input_node, FALSE, FALSE)} :
        /\ jit_expression' = lowered.expr
        /\ _input_columns' =
             [i \in 1..Len(lowered.st.registers.columns) |->
                [column_id |-> lowered.st.registers.columns[i].column_id,
                 tuple_value |-> lowered.st.registers.columns[i].tuple_value,
                 use_value_id |-> lowered.st.registers.columns[i].use_value_id,
                 data_type |->
                   lowered.st.data_types[lowered.st.registers.columns[i].tuple_value + 1]]]
        /\ _input_literals' = lowered.st.registers.literals
        /\ _input_parameters' = lowered.st.registers.parameters
        /\ _num_tuple_values' = lowered.st.registers.num_tuple_values
        /\ _value_id_predicates' = lowered.st.value_id_predicates
        /\ \/ rpc' = IF lowered.expr = nullptr THEN "nullptr" ELSE "lowered"
           \/ ~lowered.st.asserted /\ rpc' = "failed"
  /\ UNCHANGED <<query, _input_parameter_values, runtime_tuple, dictionaries,
                 read_chunk_id, current_row, notReadTuples>>

\* before_query of a chain without external parameters: the literals, and
\* add_input_segment_iterators for chunk 0 with its DebugAsserts; without
\* them a column in value-id mode reads through a null dictionary segment
LowerBeforeQuery ==
  /\ rpc = "lowered" /\ _input_parameters = <<>>
  /\ runtime_tuple' = InstallLiteralValues(_input_literals,
                                           [i \in 1.._num_tuple_values |-> Cell(0)])
  /\ \/ ~NotADictionary /\ rpc' = "query"
     \/ NotADictionary /\ rpc' \in {"failed", "undefined"}
     \/ ~NotADictionary /\ BoolColumnIsNull /\ rpc' = "failed"
  /\ UNCHANGED <<query, _input_columns, _input_literals, _input_parameters,
                 _value_id_predicates, _num_tuple_values, jit_expression,
                 _input_parameter_values, dictionaries, read_chunk_id, current_row,
                 notReadTuples>>

\* one row of a chunk through the readers, the JitCompute of the expression
\* and the JitFilter on its result, for an expression in value mode
LowerExecuteRow(row) ==
  /\ rpc = "query" /\ _value_id_predicates = <<>>
  /\ \A i \in 1..Len(_input_columns) : ~_input_columns[i].use_value_id
  /\ row \in Rows
  /\ LET computed == ComputeExpression(jit_expression,
                                       ReadRow(_input_columns, row, runtime_tuple))
     IN /\ runtime_tuple' = computed
        /\ current_row' = [row |-> row, result |-> computed[jit_expression.result + 1],
                           forwarded |-> FilterPasses(computed, jit_expression.result)]
  /\ UNCHANGED <<query, _input_columns, _input_literals, _input_parameters,
                 _value_id_predicates, _num_tuple_values, jit_expression,
                 _input_parameter_values, dictionaries, read_chunk_id, rpc, notReadTuples>>

NextLower ==
  \/ LowerExpression
  \/ LowerBeforeQuery
  \/ \E row \in [0..1 -> RowCells] : LowerExecuteRow(row)

SpecLower == InitLower /\ [][NextLower]_vars

(***************************************************************************)
(* C13, C14: when a predicate is lowered in value-id mode.                 *)
(***************************************************************************)
Lowered == rpc \notin {"idle", "build"}

\* column 0 is read in value-id mode
ValueIdMode ==
  \E i \in 1..Len(_input_columns) :
    _input_columns[i].column_id = 0 /\ _input_columns[i].use_value_id

\* the arguments of the predicate other than column 0
OtherOperands ==
  {query.expression.arguments[i] : i \in 1..Len(query.expression.arguments)} \
    {TableColumn(0)}

\* C13: a predicate is lowered in value-id mode iff its column is a
\* dictionary-encoded column of a stored table, its operator is one of the six
\* comparisons and its other operand is a literal or an external parameter;
\* with BETWEEN, IS NULL, IS NOT NULL, another encoding or another kind of
\* operand it is lowered in value mode.
C13_ValueIdModeIff ==
  (Lowered /\ query.family = "Predicate")
  => (ValueIdMode <=>
        /\ TableColumn(0).encoding = "Dictionary"
        /\ TableColumn(0).original_node = "StoredTable"
        /\ query.expression.predicate_condition \in BinaryPredicateTypes
        /\ \A operand \in OtherOperands : operand.type \in {"Value", "Parameter"})

\* what of C13 the translator keeps: a comparison on an unencoded or
\* dictionary column of a stored table that is the input node is lowered in
\* value-id mode iff the column is a dictionary column and the other operand a
\* literal or an external parameter
ValueIdModeOfComparisons ==
  (/\ Lowered /\ query.family = "Predicate" /\ query.input_node = "StoredTable"
   /\ TableColumn(0).encoding \in {"Unencoded", "Dictionary"}
   /\ query.expression.predicate_condition \in BinaryPredicateTypes)
  => (ValueIdMode <=>
        /\ TableColumn(0).encoding = "Dictionary"
        /\ \A operand \in OtherOperands : operand.type \in {"Value", "Parameter"})

\* a comparison with a literal on a run-length column is lowered in value-id
\* mode, and the reader finds that the segment is not a dictionary
RunLengthColumnInValueIdMode ==
  /\ rpc \in {"failed", "undefined"} /\ query.family = "Predicate"
  /\ TableColumn(0).encoding = "RunLength" /\ ValueIdMode /\ NotADictionary

\* the data type of an expression translated in value mode
RECURSIVE ValueModeDataType(_)
ValueModeDataType(expression) ==
  CASE expression.type = "LQPColumn" -> expression.data_type
    [] expression.type = "Value" -> expression.value.data_type
    [] expression.type = "Parameter" -> expression.data_type
    [] expression.type = "Arithmetic" -> ValueModeDataType(expression.arguments[1])
    [] OTHER -> "Bool"

\* the translation with value ids disabled has a result: no expression of two
\* arguments has a String on one side only
RECURSIVE TranslatesInValueMode(_)
TranslatesInValueMode(expression) ==
  \/ expression.type \in {"LQPColumn", "Value", "Parameter"}
  \/ /\ expression.type \in {"Predicate", "Logical", "Arithmetic"}
     /\ \A i \in 1..Len(expression.arguments) :
          TranslatesInValueMode(expression.arguments[i])
     /\ Len(expression.arguments) = 2 =>
          ((ValueModeDataType(expression.arguments[1]) = "String") =
           (ValueModeDataType(expression.arguments[2]) = "String"))

\* C14: if the filter expression has no translation with value ids, the
\* sub-plan is translated again with value ids disabled: no chain is returned
\* only if the expression has no translation in value mode either.
C14_RetryWithoutValueIds ==
  (query.family = "Conjunction" /\ rpc = "nullptr")
  => ~TranslatesInValueMode(query.expression)

(***************************************************************************)
(* C15, C16: the collapse of expr != 0 and the tree of BETWEEN.            *)
(***************************************************************************)
\* the value of an LQP expression on a row, in value space
RECURSIVE ValueInValueSpace(_, _)
ValueInValueSpace(expression, row) ==
  CASE expression.type = "LQPColumn" -> row[expression.column_id]
    [] expression.type = "Value" -> SetValueFromInput(expression.value)
    [] expression.type = "Predicate" /\ Len(expression.arguments) = 1 ->
         LET child == ValueInValueSpace(expression.arguments[1], row)
         IN Bool(IF expression.predicate_condition = "IsNull" THEN child.is_null
                 ELSE ~child.is_null)
    [] expression.type = "Predicate" /\ Len(expression.arguments) = 2 ->
         LET left == ValueInValueSpace(expression.arguments[1], row)
             right == ValueInValueSpace(expression.arguments[2], row)
         IN IF left.is_null \/ right.is_null THEN NullCell
            ELSE Bool(Compare(expression.predicate_condition, left.value, right.value))

\* the right operand of the predicate is the literal Int 0
RightOperandIsIntZero == query.expression.arguments[2] = Value("Int", 0)

C16_BetweenNullInAnyOperand ==
  (query.family = "Between" /\ current_row # <<>>)
  => LET x == ValueInValueSpace(query.expression.arguments[1], current_row.row)
         lo == ValueInValueSpace(query.expression.arguments[2], current_row.row)
         hi == ValueInValueSpace(query.expression.arguments[3], current_row.row)
     IN current_row.result =
          IF x.is_null \/ lo.is_null \/ hi.is_null THEN NullCell
          ELSE Bool(lo.value <= x.value /\ x.value <= hi.value)

\* what of C16 the tree keeps: the three-valued conjunction of x >= lo and
\* x <= hi, which is false as soon as one comparison is
BetweenAsConjunction ==
  (query.family = "Between" /\ current_row # <<>>)
  => LET x == ValueInValueSpace(query.expression.arguments[1], current_row.row)
         lo == ValueInValueSpace(query.expression.arguments[2], current_row.row)
         hi == ValueInValueSpace(query.expression.arguments[3], current_row.row)
         below == ~x.is_null /\ ~lo.is_null /\ x.value < lo.value
         above == ~x.is_null /\ ~hi.is_null /\ x.value > hi.value
     IN current_row.result =
          IF below \/ above THEN Bool(FALSE)
          ELSE IF x.is_null \/ lo.is_null \/ hi.is_null THEN NullCell
          ELSE Bool(TRUE)

(***************************************************************************)
(* SpecChunkLoop: AbstractOperator::execute and the chunk loop of          *)
(* JitOperatorWrapper::_on_execute, with the result of the row-count       *)
(* expression, chunks with and without MVCC data, and a transaction that   *)
(* may be aborted while the operator runs.                                 *)
(***************************************************************************)
\* the rows of the result of the row-count expression
RowCountCells == {NullCell} \cup {Cell(v) : v \in (-1)..MaxLimit}

\* what ExpressionEvaluator::evaluate_expression_to_result returns
RowCountResults == UNION {[1..n -> RowCountCells] : n \in 0..2}

\* row_count_expression is <<>> (nullptr) or holds the result of the
\* expression; the chain has a JitLimit iff it has the expression
LoopPlans ==
  [use_validate : BOOLEAN,
   row_count_expression : {<<>>} \cup {<<result>> : result \in RowCountResults}]

\* a chunk has MVCC data or is a reference chunk
LoopChunks == [has_mvcc_data : BOOLEAN, size : 1..2]

LoopTables == UNION {[1..n -> LoopChunks] : n \in 0..MaxChunks}

\* a mutant: a negative row count is let through
RowCountAssertsWithoutSign(num_rows_expression_result) ==
  /\ Len(num_rows_expression_result) = 1
  /\ ~num_rows_expression_result[1].is_null

\* the Asserts of lines 67-72 hold
RowCountAsserts(num_rows_expression_result) ==
  /\ Len(num_rows_expression_result) = 1
  /\ ~num_rows_expression_result[1].is_null
  /\ num_rows_expression_result[1].value >= 0

InitChunkLoop ==
  /\ IdleValidate /\ IdleReadTuples /\ IdleTranslate /\ IdleLater
  /\ plan \in LoopPlans
  /\ jit_operators =
       <<Op("ReadTuples")>> \o (IF plan.use_validate THEN <<Op("Validate")>> ELSE <<>>) \o
       (IF plan.row_count_expression # <<>> THEN <<Op("Limit")>> ELSE <<>>) \o
       <<Op("WriteOffsets")>>
  /\ in_table \in LoopTables
  /\ context = FreshContext
  /\ out_table = <<>> /\ next_chunk = 0 /\ offered = <<>>
  /\ transaction_aborted \in BOOLEAN
  /\ pc = "created"

\* AbstractOperator::execute: an operator of an aborted transaction is not
\* run
OperatorExecute ==
  /\ pc = "created"
  /\ pc' = IF transaction_aborted THEN "not_executed" ELSE "start"
  /\ UNCHANGED <<plan, jit_operators, in_table, context, out_table, next_chunk, offered,
                 transaction_aborted, notChunkLoop>>

\* the transaction is aborted while the operator runs
AbortTransaction ==
  /\ pc \in {"start", "chunk_loop", "execute"}
  /\ ~transaction_aborted
  /\ transaction_aborted' = TRUE
  /\ UNCHANGED <<scanVars, notChunkLoop>>

\* before_query: the row count of the Limit
ChunkLoopBeforeQuery ==
  /\ pc = "start"
  /\ IF plan.row_count_expression # <<>> /\ ~RowCountAsserts(plan.row_count_expression[1])
     THEN pc' = "failed" /\ context' = context
     ELSE /\ pc' = "chunk_loop"
          /\ context' =
               [FreshContext EXCEPT !.limit_rows =
                  LimitRows(IF plan.row_count_expression = <<>> THEN <<>>
                            ELSE <<plan.row_count_expression[1][1].value>>)]
  /\ UNCHANGED <<plan, jit_operators, in_table, out_table, next_chunk, offered,
                 transaction_aborted, notChunkLoop>>

\* the head of the chunk loop and before_chunk
ChunkLoopBeforeChunk ==
  /\ pc = "chunk_loop"
  /\ next_chunk < Len(in_table) /\ context.limit_rows # 0
  /\ LET in_chunk == in_table[next_chunk + 1]
         c1 == [context EXCEPT !.chunk_offset = 0, !.chunk_size = in_chunk.size,
                               !.chunk_id = next_chunk]
     IN context' = IF ~plan.use_validate THEN c1
                   ELSE MvccDataOfChunk(c1, in_chunk.has_mvcc_data, next_chunk,
                                        [i \in 1..in_chunk.size |-> <<0, i - 1>>])
  /\ pc' = "execute"
  /\ UNCHANGED <<plan, jit_operators, in_table, out_table, next_chunk, offered,
                 transaction_aborted, notChunkLoop>>

\* one row of the row loop: the JitValidate lets it through or not, the
\* JitLimit counts it
ChunkLoopExecuteRow(visible) ==
  /\ pc = "execute"
  /\ context.chunk_offset < context.chunk_size
  /\ LET emitted == visible /\ (plan.row_count_expression # <<>> => context.limit_rows > 0)
     IN /\ context' =
             [context EXCEPT !.chunk_offset = @ + 1,
                             !.limit_rows = IF emitted /\ plan.row_count_expression # <<>>
                                            THEN @ - 1 ELSE @]
        /\ out_table' = IF emitted
                        THEN Append(out_table, <<context.chunk_id, context.chunk_offset>>)
                        ELSE out_table
  /\ offered' = Append(offered, <<context.chunk_id, context.chunk_offset>>)
  /\ UNCHANGED <<plan, jit_operators, in_table, next_chunk, pc, transaction_aborted,
                 notChunkLoop>>

\* the row loop is over: after_chunk, then ++chunk_id
ChunkLoopAfterChunk ==
  /\ pc = "execute"
  /\ context.chunk_offset >= context.chunk_size
  /\ next_chunk' = next_chunk + 1
  /\ pc' = "chunk_loop"
  /\ UNCHANGED <<plan, jit_operators, in_table, context, out_table, offered,
                 transaction_aborted, notChunkLoop>>

\* the chunk loop is over: after_query, and the context goes with its lock
ChunkLoopAfterQuery ==
  /\ pc = "chunk_loop"
  /\ ~(next_chunk < Len(in_table) /\ context.limit_rows # 0)
  /\ context' = [context EXCEPT !.mvcc_data_lock = <<>>]
  /\ pc' = "done"
  /\ UNCHANGED <<plan, jit_operators, in_table, out_table, next_chunk, offered,
                 transaction_aborted, notChunkLoop>>

NextChunkLoop ==
  \/ OperatorExecute
  \/ AbortTransaction
  \/ ChunkLoopBeforeQuery
  \/ ChunkLoopBeforeChunk
  \/ \E visible \in BOOLEAN : ChunkLoopExecuteRow(visible)
  \/ ChunkLoopAfterChunk
  \/ ChunkLoopAfterQuery

SpecChunkLoop == InitChunkLoop /\ [][NextChunkLoop]_vars

LockOfLastChunkWithMvccData ==
  (pc = "execute" /\ plan.use_validate)
  => LET with_mvcc_data == {k \in 0..context.chunk_id : in_table[k + 1].has_mvcc_data}
     IN context.mvcc_data_lock =
          IF with_mvcc_data = {} THEN <<>>
          ELSE <<CHOOSE k \in with_mvcc_data : \A j \in with_mvcc_data : j <= k>>

\* C18: when the transaction has been aborted after the start of the
\* execution, the driver finds it before the next before_chunk and processes
\* no further chunk.
C18_NoChunkAfterAbort ==
  [][(transaction_aborted /\ pc = "chunk_loop") => pc' # "execute"]_vars

\* what the code checks: an operator of a transaction that is aborted before
\* execute is called is not run
AbortedBeforeExecuteIsNotRun ==
  [][(transaction_aborted /\ pc = "created") => pc' = "not_executed"]_vars

\* C19: before_query fails, before any chunk is processed, when the result of
\* the row-count expression is not exactly one row, is NULL or is negative;
\* otherwise limit_rows is that number; without a row-count expression
\* limit_rows is the maximum, and stays it.
C19_LimitRowCount ==
  (pc \notin {"idle", "created", "start", "not_executed"})
  => IF plan.row_count_expression = <<>>
     THEN pc # "failed" /\ context.limit_rows = SizeMax
     ELSE LET result == plan.row_count_expression[1]
          IN IF Len(result) # 1 \/ result[1].is_null \/ result[1].value < 0
             THEN /\ pc = "failed"
                  /\ next_chunk = 0 /\ offered = <<>> /\ context = FreshContext
             ELSE /\ pc # "failed"
                  /\ (pc = "chunk_loop" /\ next_chunk = 0)
                       => context.limit_rows = result[1].value

\* the row count is -1 and before_query has failed
C19_Witness ==
  /\ pc = "failed"
  /\ plan.row_count_expression = << <<Cell(-1)>> >>
  /\ Len(in_table) > 0

(***************************************************************************)
(* C20: the operational visibility rule against the declarative rule.      *)
(***************************************************************************)
\* the declarative rule: created in the past of the snapshot or by this
\* transaction, and neither deleted in the past of the snapshot nor by this
\* transaction
DeclarativeVisible(row, tx, snap, current_commit) ==
  /\ (row.begin_cid <= snap \/ row.tid = tx)
  /\ row.end_cid > snap
  /\ ~(row.tid = tx /\ row.end_cid <= current_commit)

\* the commit ids the current commit may have: any id below MAX_COMMIT_ID
CurrentCommits == 0..(MaxCid + 1)

\* the MVCC values stored for the row validate_row was called for
ValidatedRow ==
  LET row_id == <<validated.chunk_id, validated.chunk_offset>>
  IN IF row_id = ProbeRowId THEN probe_row ELSE FixtureMvcc[row_id]

\* C20 as stated: on a data table the tuple is forwarded (the operational
\* rule) iff the row is visible by the declarative rule, for some value of
\* the current commit.
C20_OperationalEqualsDeclarative ==
  ValidatedData =>
    \E current_commit \in CurrentCommits :
      consume_was_called =
        DeclarativeVisible(ValidatedRow, vcontext.transaction_id,
                           vcontext.snapshot_commit_id, current_commit)

\* the tuples on which the two rules are compared: rows of other
\* transactions, rows deleted in the past of the snapshot, and own inserts
\* that are not deleted
RulesComparable(row, tx, snap) ==
  \/ row.tid # tx
  \/ row.end_cid <= snap
  \/ (row.begin_cid > snap /\ row.end_cid = MAX_COMMIT_ID)

\* a committed row the own transaction holds for deletion
OwnDelete(row, tx, snap) ==
  row.tid = tx /\ row.begin_cid <= snap /\ row.end_cid = MAX_COMMIT_ID

\* C20, amended: for a row with tid # tx, or end_cid <= snap, or begin_cid >
\* snap and end_cid = MAX, the tuple is forwarded iff the row is visible by
\* the declarative rule, whatever the current commit is; a row with tid = tx,
\* begin_cid <= snap and end_cid = MAX is not forwarded although the
\* declarative rule calls it visible.
C20_RulesAgreeExceptOwnDeletes ==
  ValidatedData =>
    \A current_commit \in CurrentCommits :
      LET tx == vcontext.transaction_id
          snap == vcontext.snapshot_commit_id
          declarative == DeclarativeVisible(ValidatedRow, tx, snap, current_commit)
      IN /\ RulesComparable(ValidatedRow, tx, snap)
              => consume_was_called = declarative
         /\ OwnDelete(ValidatedRow, tx, snap)
              => ~consume_was_called /\ declarative

\* an own insert of the probe row was forwarded, which both rules allow
C20_Witness ==
  /\ ValidatedData
  /\ <<validated.chunk_id, validated.chunk_offset>> = ProbeRowId
  /\ probe_row.tid = vcontext.transaction_id
  /\ probe_row.begin_cid > vcontext.snapshot_commit_id
  /\ consume_was_called

\* a committed row the own transaction holds for deletion (tid = tx,
\* begin_cid <= snap, end_cid = MAX) was not forwarded, although the
\* declarative rule calls it visible for every current commit
OwnDeleteNotForwarded ==
  /\ ValidatedData
  /\ <<validated.chunk_id, validated.chunk_offset>> = ProbeRowId
  /\ probe_row.tid = vcontext.transaction_id
  /\ probe_row.begin_cid <= vcontext.snapshot_commit_id
  /\ probe_row.end_cid = MAX_COMMIT_ID
  /\ ~consume_was_called
  /\ \A current_commit \in CurrentCommits :
       DeclarativeVisible(probe_row, vcontext.transaction_id,
                          vcontext.snapshot_commit_id, current_commit)

(***************************************************************************)
(* JitOperatorWrapper::_prepare: insert_loads and _choose_execute_func of  *)
(* copies of one wrapper that share the SpecializedFunction.               *)
(***************************************************************************)
MaxMiddleOperators == 2   \* operators between the JitReadTuples and the sink
MaxSlots == 2             \* tuple slots an operator of the chain may read: 0..MaxSlots-1
Copies == 2               \* wrappers that share the SpecializedFunction

IdleEarlier ==
  /\ IdleValidate /\ IdleScan /\ IdleReadTuples /\ IdleTranslate /\ IdleTransaction

\* accessed_column_ids() of an operator: tuple index -> whether the operator
\* can load the value inside its expression
AccessedColumnIds(slots, flags) == UNION {[d -> flags] : d \in SUBSET slots}

\* an operator of the chain; load_columns are the set_load_column calls it got
Jittable(type, accessed_column_ids) ==
  [type |-> type, accessed_column_ids |-> accessed_column_ids, load_columns |-> {},
   input_column |-> -1]

\* std::make_shared<JitReadValue>(input_columns[index], input_wrappers[index])
JitReadValue(tuple_index) ==
  [type |-> "ReadValue", accessed_column_ids |-> <<>>, load_columns |-> {},
   input_column |-> tuple_index]

\* the operators between the source and the sink
MiddleOperators(slots) ==
  {Jittable("Validate", <<>>), Jittable("Limit", <<>>)} \cup
  {Jittable(type, a) : type \in {"Compute", "Filter"},
                       a \in AccessedColumnIds(slots, BOOLEAN)}

\* the sinks; a sink reads its columns from the tuple
SinkOperatorsOf(slots) ==
  {Jittable("WriteOffsets", <<>>)} \cup
  {Jittable(type, a) : type \in {"WriteTuples", "Aggregate"},
                       a \in AccessedColumnIds(slots, {FALSE})}

RECURSIVE MiddleChains(_, _)
MiddleChains(slots, n) ==
  IF n = 0 THEN {<<>>}
  ELSE LET shorter == MiddleChains(slots, n - 1)
       IN shorter \cup {Append(c, o) : c \in shorter, o \in MiddleOperators(slots)}

\* the chains given to the wrapper: JitReadTuples, operators, a sink
TranslatedChains(slots, n) ==
  {<<Jittable("ReadTuples", <<>>)>> \o c \o <<sink>> :
     c \in MiddleChains(slots, n), sink \in SinkOperatorsOf(slots)}

\* the input columns of the source: the first slots of the tuple; the slots
\* after them are temporary values
InputSlots(max_slots) == {[i \in 1..n |-> i - 1] : n \in 0..max_slots}

\* the keys of a std::map in iteration order
RECURSIVE Ascending(_)
Ascending(keys) ==
  IF keys = {} THEN <<>>
  ELSE LET least == CHOOSE k \in keys : \A other \in keys : k <= other
       IN <<least>> \o Ascending(keys \ {least})

\* lines 90-92: inverted_input_columns.count(tuple_index)
IsInputColumn(slots_of_inputs, tuple_index) ==
  \E i \in 1..Len(slots_of_inputs) : slots_of_inputs[i] = tuple_index

\* lines 94-105: column_id_used_by_one_operator after the first loop; the
\* entry of a column is made TRUE by its first reader and FALSE by any later
\* one
RECURSIVE ColumnIdUsedByOneOperator(_, _, _)
ColumnIdUsedByOneOperator(operators, slots_of_inputs, used) ==
  IF operators = <<>> THEN used
  ELSE LET read == {t \in DOMAIN Head(operators).accessed_column_ids :
                      IsInputColumn(slots_of_inputs, t)}
       IN ColumnIdUsedByOneOperator(Tail(operators), slots_of_inputs,
            [t \in DOMAIN used \cup read |->
               IF t \in read THEN t \notin DOMAIN used ELSE used[t]])

\* lines 108-120: the columns of one operator, in the order of its map; st is
\* [used, loads, operator]
RECURSIVE LoadsOfOperator(_, _)
LoadsOfOperator(tuple_indices, st) ==
  IF tuple_indices = <<>> THEN st
  ELSE LET t == Head(tuple_indices)
       IN IF t \notin DOMAIN st.used THEN LoadsOfOperator(Tail(tuple_indices), st)
          ELSE LoadsOfOperator(Tail(tuple_indices),
                 [used |-> [u \in DOMAIN st.used \ {t} |-> st.used[u]],
                  loads |-> IF st.operator.accessed_column_ids[t] /\ st.used[t]
                            THEN st.loads
                            ELSE Append(st.loads, JitReadValue(t)),
                  operator |-> IF st.operator.accessed_column_ids[t] /\ st.used[t]
                               THEN [st.operator EXCEPT !.load_columns = @ \cup {t}]
                               ELSE st.operator])

\* lines 106-122: the second loop over the operators
RECURSIVE InsertLoadsFrom(_, _, _)
InsertLoadsFrom(operators, used, jit_ops) ==
  IF operators = <<>> THEN jit_ops
  ELSE LET st == LoadsOfOperator(
                   Ascending(DOMAIN Head(operators).accessed_column_ids),
                   [used |-> used, loads |-> <<>>, operator |-> Head(operators)])
       IN InsertLoadsFrom(Tail(operators), st.used,
                          jit_ops \o st.loads \o <<st.operator>>)

\* a mutant: the loads are inserted without the map of the first loop being
\* emptied, so every reader of a shared column gets a load
InsertLoadsAtEveryReader(operators, slots_of_inputs) ==
  LET used == ColumnIdUsedByOneOperator(operators, slots_of_inputs, <<>>)
      loaded(o) ==
        LoadsOfOperator(Ascending(DOMAIN o.accessed_column_ids),
                        [used |-> used, loads |-> <<>>, operator |-> o])
      RECURSIVE all(_)
      all(ops) == IF ops = <<>> THEN <<>>
                  ELSE loaded(Head(ops)).loads \o <<loaded(Head(ops)).operator>>
                         \o all(Tail(ops))
  IN all(operators)

\* JitOperatorWrapper::insert_loads with JIT_LAZY_LOAD
insert_loads(operators, slots_of_inputs) ==
  InsertLoadsFrom(operators,
                  ColumnIdUsedByOneOperator(operators, slots_of_inputs, <<>>), <<>>)

\* the wrappers add_input_segment_iterators(prepare_wrapper = true) pushes:
\* one per input column, each with the size of the vector as reader_index
RECURSIVE TypedInputWrappers(_, _)
TypedInputWrappers(wrappers, n) ==
  IF n = 0 THEN wrappers
  ELSE TypedInputWrappers(
         Append(wrappers, [type |-> "JitSegmentReaderWrapper",
                           reader_index |-> Len(wrappers)]), n - 1)

\* create_default_input_wrappers
DefaultInputWrappers(wrappers, n) ==
  wrappers \o [i \in 1..n |-> [type |-> "BaseJitSegmentReaderWrapper",
                               reader_index |-> i - 1]]

\* a mutant: the function is built again although one exists
ReturnsEarlyNever(function) == FALSE

\* line 160: if (_specialized_function->execute_func) return;
ReturnsEarly(function) == function.execute_func # "null"

InitPrepare ==
  /\ IdleEarlier /\ IdleDispatch /\ IdleSlots /\ IdleExecute /\ IdleCached
  /\ input_slots \in InputSlots(MaxSlots)
  /\ translated_operators \in TranslatedChains(0..(MaxSlots - 1), MaxMiddleOperators)
  /\ specialized_function = [jit_operators |-> translated_operators,
                             insert_loads |-> TRUE, execute_func |-> "null"]
  /\ specialize_mutex = 0
  /\ _input_wrappers = <<>>
  /\ input_chunk_count \in 0..1
  /\ prepare_calls = [insert_loads |-> 0, set_next_operator |-> 0, execute_func |-> 0]
  /\ wrapper_pc = [c \in 1..Copies |-> "created"]

\* _prepare, lines 125-134: the Asserts hold for every chain of the model;
\* the wrappers of the source are tested without the mutex
Prepare(c) ==
  /\ wrapper_pc[c] = "created"
  /\ wrapper_pc' = [wrapper_pc EXCEPT ![c] =
                      IF input_chunk_count > 0 /\ _input_wrappers = <<>>
                      THEN "add_input_segment_iterators" ELSE "_choose_execute_func"]
  /\ UNCHANGED <<translated_operators, input_slots, specialized_function,
                 specialize_mutex, _input_wrappers, input_chunk_count, prepare_calls,
                 notPrepare>>

\* _prepare, line 133: the wrappers for the segments of chunk 0
AddInputSegmentIterators(c) ==
  /\ wrapper_pc[c] = "add_input_segment_iterators"
  /\ _input_wrappers' = TypedInputWrappers(_input_wrappers, Len(input_slots))
  /\ wrapper_pc' = [wrapper_pc EXCEPT ![c] = "_choose_execute_func"]
  /\ UNCHANGED <<translated_operators, input_slots, specialized_function,
                 specialize_mutex, input_chunk_count, prepare_calls, notPrepare>>

\* _choose_execute_func, lines 159-160: the lock_guard and the early return
LockSpecializeMutex(c) ==
  /\ wrapper_pc[c] = "_choose_execute_func"
  /\ specialize_mutex = 0
  /\ specialize_mutex' = c
  /\ wrapper_pc' = [wrapper_pc EXCEPT ![c] =
                      IF ReturnsEarly(specialized_function)
                      THEN "return" ELSE "create_default_input_wrappers"]
  /\ UNCHANGED <<translated_operators, input_slots, specialized_function,
                 _input_wrappers, input_chunk_count, prepare_calls, notPrepare>>

\* lines 162-167
CreateDefaultInputWrappers(c) ==
  /\ wrapper_pc[c] = "create_default_input_wrappers"
  /\ _input_wrappers' = IF _input_wrappers = <<>>
                        THEN DefaultInputWrappers(_input_wrappers, Len(input_slots))
                        ELSE _input_wrappers
  /\ wrapper_pc' = [wrapper_pc EXCEPT ![c] = "insert_loads"]
  /\ UNCHANGED <<translated_operators, input_slots, specialized_function,
                 specialize_mutex, input_chunk_count, prepare_calls, notPrepare>>

\* lines 170-173
InsertLoads(c) ==
  /\ wrapper_pc[c] = "insert_loads"
  /\ IF specialized_function.insert_loads
     THEN /\ specialized_function' =
               [specialized_function EXCEPT
                  !.jit_operators = insert_loads(@, input_slots),
                  !.insert_loads = FALSE]
          /\ prepare_calls' = [prepare_calls EXCEPT !.insert_loads = @ + 1]
     ELSE UNCHANGED <<specialized_function, prepare_calls>>
  /\ wrapper_pc' = [wrapper_pc EXCEPT ![c] = "set_next_operator"]
  /\ UNCHANGED <<translated_operators, input_slots, specialize_mutex, _input_wrappers,
                 input_chunk_count, notPrepare>>

\* lines 176-181: the operators are connected to a chain
SetNextOperators(c) ==
  /\ wrapper_pc[c] = "set_next_operator"
  /\ prepare_calls' = [prepare_calls EXCEPT !.set_next_operator = @ + 1]
  /\ wrapper_pc' = [wrapper_pc EXCEPT ![c] = "specialize"]
  /\ UNCHANGED <<translated_operators, input_slots, specialized_function,
                 specialize_mutex, _input_wrappers, input_chunk_count, notPrepare>>

\* lines 187-199: the specialised function, or JitReadTuples::execute when
\* Global::get().interpret or the experiment says so
CreateExecuteFunc(c, specialize) ==
  /\ wrapper_pc[c] = "specialize"
  /\ specialized_function' =
       [specialized_function EXCEPT
          !.execute_func = IF specialize THEN "specialized"
                           ELSE "JitReadTuples::execute"]
  /\ prepare_calls' = [prepare_calls EXCEPT !.execute_func = @ + 1]
  /\ wrapper_pc' = [wrapper_pc EXCEPT ![c] = "return"]
  /\ UNCHANGED <<translated_operators, input_slots, specialize_mutex, _input_wrappers,
                 input_chunk_count, notPrepare>>

\* the lock_guard goes out of scope and _prepare returns
UnlockSpecializeMutex(c) ==
  /\ wrapper_pc[c] = "return"
  /\ specialize_mutex' = 0
  /\ wrapper_pc' = [wrapper_pc EXCEPT ![c] = "prepared"]
  /\ UNCHANGED <<translated_operators, input_slots, specialized_function,
                 _input_wrappers, input_chunk_count, prepare_calls, notPrepare>>

NextPrepare ==
  \E c \in 1..Copies :
    \/ Prepare(c)
    \/ AddInputSegmentIterators(c)
    \/ LockSpecializeMutex(c)
    \/ CreateDefaultInputWrappers(c)
    \/ InsertLoads(c)
    \/ SetNextOperators(c)
    \/ \E specialize \in BOOLEAN : CreateExecuteFunc(c, specialize)
    \/ UnlockSpecializeMutex(c)

SpecPrepare == InitPrepare /\ [][NextPrepare]_vars

(***************************************************************************)
(* C22: the load points insert_loads leaves in the chain.                  *)
(***************************************************************************)
\* insert_loads has run on the shared chain
LoadsInserted == ~specialized_function.insert_loads

\* the operators of the translated chain that read the tuple slot
Readers(tuple_index) ==
  {i \in 1..Len(translated_operators) :
     tuple_index \in DOMAIN translated_operators[i].accessed_column_ids}

\* the input columns some operator reads
ColumnsRead ==
  {t \in 0..(MaxSlots - 1) : IsInputColumn(input_slots, t) /\ Readers(t) # {}}

\* where the chain holds a JitReadValue of the column, and which operators
\* load it inside their expression
ReadValuesOf(tuple_index) ==
  {k \in 1..Len(specialized_function.jit_operators) :
     /\ specialized_function.jit_operators[k].type = "ReadValue"
     /\ specialized_function.jit_operators[k].input_column = tuple_index}

LazyLoadsOf(tuple_index) ==
  {k \in 1..Len(specialized_function.jit_operators) :
     tuple_index \in specialized_function.jit_operators[k].load_columns}

\* the place in the new chain of operator i of the translated chain
PlaceOf(i) ==
  CHOOSE k \in 1..Len(specialized_function.jit_operators) :
    /\ specialized_function.jit_operators[k].type # "ReadValue"
    /\ Cardinality({j \in 1..k :
                      specialized_function.jit_operators[j].type # "ReadValue"}) = i

\* only JitReadValues stand between the place k and the place of operator i
DirectlyBefore(k, i) ==
  /\ k < PlaceOf(i)
  /\ \A j \in k..(PlaceOf(i) - 1) :
       specialized_function.jit_operators[j].type = "ReadValue"

\* the operators of the translated chain are all there, in their order
OrderUnchanged ==
  LET kept == SelectSeq(specialized_function.jit_operators,
                        LAMBDA o : o.type # "ReadValue")
  IN /\ Len(kept) = Len(translated_operators)
     /\ \A i \in 1..Len(kept) :
          [kept[i] EXCEPT !.load_columns = {}] = translated_operators[i]

\* the load of a column exactly one operator reads
SingleReaderLoad(t) ==
  LET reader == CHOOSE i \in Readers(t) : TRUE
  IN \/ /\ LazyLoadsOf(t) = {}
        /\ \E k \in ReadValuesOf(t) : DirectlyBefore(k, reader)
     \/ /\ ReadValuesOf(t) = {}
        /\ LazyLoadsOf(t) = {PlaceOf(reader)}
        /\ translated_operators[reader].type \in {"Compute", "Filter"}
        /\ translated_operators[reader].accessed_column_ids[t]

\* C22 as stated: after insert_loads every input column that is read has one
\* load point; the JitReadValue of a column with two or more readers stands
\* immediately after the JitReadTuples; a column with one reader is loaded
\* directly before it or inside its expression; the order of the operators
\* is unchanged.
C22_LoadPoints ==
  LoadsInserted =>
    /\ OrderUnchanged
    /\ \A t \in ColumnsRead :
         /\ Cardinality(ReadValuesOf(t)) + Cardinality(LazyLoadsOf(t)) = 1
         /\ Cardinality(Readers(t)) >= 2 =>
              /\ LazyLoadsOf(t) = {}
              /\ \E k \in ReadValuesOf(t) : DirectlyBefore(k, 2) \/ k = 2
         /\ Cardinality(Readers(t)) = 1 => SingleReaderLoad(t)

\* the first operator of the translated chain that reads the column
FirstReader(t) == CHOOSE i \in Readers(t) : \A j \in Readers(t) : i <= j

\* C22, amended: as stated, but the JitReadValue of a column with two or more
\* readers stands directly before the first operator that reads it.
C22_LoadBeforeFirstReader ==
  LoadsInserted =>
    /\ OrderUnchanged
    /\ \A t \in ColumnsRead :
         /\ Cardinality(ReadValuesOf(t)) + Cardinality(LazyLoadsOf(t)) = 1
         /\ Cardinality(Readers(t)) >= 2 =>
              /\ LazyLoadsOf(t) = {}
              /\ \E k \in ReadValuesOf(t) : DirectlyBefore(k, FirstReader(t))
         /\ Cardinality(Readers(t)) = 1 => SingleReaderLoad(t)

\* a column read by a JitCompute and by the sink got its JitReadValue behind
\* the JitValidate, and another column is loaded inside the JitCompute
C22_Witness ==
  /\ LoadsInserted
  /\ Len(translated_operators) = 4
  /\ translated_operators[2].type = "Validate"
  /\ translated_operators[3].type = "Compute"
  /\ Readers(0) = {3, 4} /\ Readers(1) = {3}
  /\ input_slots = <<0, 1>>
  /\ ReadValuesOf(0) = {3}
  /\ LazyLoadsOf(1) = {4}

(***************************************************************************)
(* C28: copies that share the SpecializedFunction prepare it once.         *)
(***************************************************************************)
\* C28: whatever the interleaving of the _prepare calls, insert_loads, the
\* linking of the operators and the creation of the execute function never
\* run a second time, and once a copy has finished _prepare each has run
\* exactly once and the execute function is set.
C28_PreparedOnce ==
  /\ prepare_calls.insert_loads <= 1
  /\ prepare_calls.set_next_operator <= 1
  /\ prepare_calls.execute_func <= 1
  /\ \A c \in 1..Copies :
       wrapper_pc[c] = "prepared" =>
         /\ specialized_function.execute_func # "null"
         /\ prepare_calls = [insert_loads |-> 1, set_next_operator |-> 1,
                             execute_func |-> 1]

\* every copy has finished _prepare, one of them behind the early return
C28_Witness ==
  /\ \A c \in 1..Copies : wrapper_pc[c] = "prepared"
  /\ specialized_function.execute_func = "specialized"
  /\ prepare_calls.execute_func = 1

\* two copies found the wrappers of the source empty and both added theirs
InputWrappersAddedTwice == Len(_input_wrappers) > Len(input_slots)

(***************************************************************************)
(* C25: what running the chain changes.                                    *)
(***************************************************************************)
\* C25: no step of _prepare changes a field of the JitReadTuples or of
\* another operator of the chain: the input wrappers, the operators of the
\* chain and the load bindings of their expressions stay as the translator
\* left them.
C25_OperatorsImmutable ==
  [][/\ _input_wrappers' = _input_wrappers
     /\ specialized_function.jit_operators' = specialized_function.jit_operators]_vars

\* the operators the translator built are all still in the chain; the chain
\* only gains JitReadValues and load bindings
OperatorsKept == [][OrderUnchanged']_vars

(***************************************************************************)
(* The row loop _on_execute runs for a chunk: the execute function, or     *)
(* JitReadTuples::execute when a reader of the chunk has another type than *)
(* the wrapper made for it.                                                *)
(***************************************************************************)
DispatchChunks == 3    \* chunks of the input table: 1..DispatchChunks
DispatchColumns == 2   \* input columns of the JitReadTuples: 1..DispatchColumns

\* the concrete reader types add_input_segment_iterators chooses between for
\* one column: JitSegmentReader<iterator of the segment, type, nullable>
ReaderTypes == {"ValueSegment", "DictionarySegment"}

\* the input tables: each chunk gives the reader type of every input column
DispatchTables(max_chunks, max_columns) ==
  UNION {[1..chunks -> [1..columns -> ReaderTypes]] :
           chunks \in 1..max_chunks, columns \in 1..max_columns}

\* add_input_segment_iterators(prepare_wrapper = true): a
\* JitSegmentReaderWrapper<ReaderType> per input column of the chunk
RECURSIVE WrappersOfChunk(_, _)
WrappersOfChunk(chunk, wrappers) ==
  IF chunk = <<>> THEN wrappers
  ELSE WrappersOfChunk(Tail(chunk),
         Append(wrappers, [type |-> Head(chunk), reader_index |-> Len(wrappers)]))

\* add_input_segment_iterators(prepare_wrapper = false): context.inputs
ReadersOfChunk(chunk) == [i \in 1..Len(chunk) |-> [type |-> chunk[i]]]

\* wrapper->same_type(context): the reader at reader_index of context.inputs
\* has the reader type of the wrapper
WrapperSameType(wrapper, inputs) ==
  inputs[wrapper.reader_index + 1].type = wrapper.type

\* a mutant: same_type = tmp, the answer of the last wrapper alone
RECURSIVE AllSameTypeLastOnly(_, _, _)
AllSameTypeLastOnly(wrappers, inputs, same) ==
  IF wrappers = <<>> THEN same
  ELSE AllSameTypeLastOnly(Tail(wrappers), inputs,
                           WrapperSameType(Head(wrappers), inputs))

\* lines 251-259: same_type &= wrapper->same_type(context) over the wrappers
RECURSIVE AllSameType(_, _, _)
AllSameType(wrappers, inputs, same) ==
  IF wrappers = <<>> THEN same
  ELSE AllSameType(Tail(wrappers), inputs,
                   same /\ WrapperSameType(Head(wrappers), inputs))

InitDispatch ==
  /\ IdleValidate /\ IdleReadTuples /\ IdleTranslate /\ IdleTransaction
  /\ plan = None /\ jit_operators = <<>> /\ out_table = <<>> /\ offered = <<>>
  /\ in_table \in DispatchTables(DispatchChunks, DispatchColumns)
  /\ \E limit_rows \in 0..DispatchChunks :
       context = [inputs |-> <<>>, chunk_id |-> 0, limit_rows |-> limit_rows]
  /\ next_chunk = 0
  /\ pc = "created"
  /\ translated_operators = <<>>
  /\ input_slots = [i \in 1..Len(in_table[1]) |-> i - 1]
  /\ specialized_function = [jit_operators |-> <<>>, insert_loads |-> TRUE,
                             execute_func |-> "null"]
  /\ specialize_mutex = 0
  /\ _input_wrappers = <<>>
  /\ input_chunk_count = Len(in_table)
  /\ prepare_calls = "none"
  /\ wrapper_pc = <<>>
  /\ same_type = TRUE
  /\ row_loops = <<>>
  /\ IdleSlots /\ IdleExecute /\ IdleCached

\* _prepare: the wrappers for the segments of chunk 0, and the execute
\* function
DispatchPrepare(specialize) ==
  /\ pc = "created"
  /\ _input_wrappers' = IF input_chunk_count > 0 /\ _input_wrappers = <<>>
                        THEN WrappersOfChunk(in_table[1], _input_wrappers)
                        ELSE _input_wrappers
  /\ specialized_function' =
       [specialized_function EXCEPT
          !.insert_loads = FALSE,
          !.execute_func = IF specialize THEN "specialized"
                           ELSE "JitReadTuples::execute"]
  /\ pc' = "chunk_loop"
  /\ UNCHANGED <<plan, jit_operators, in_table, context, out_table, next_chunk,
                 offered, translated_operators, input_slots, specialize_mutex,
                 input_chunk_count, prepare_calls, wrapper_pc, dispatchVars,
                 notDispatch>>

\* before_chunk: the readers of the chunk are bound and compared with the
\* wrappers
DispatchBeforeChunk ==
  /\ pc = "chunk_loop" /\ next_chunk < Len(in_table) /\ context.limit_rows # 0
  /\ context' = [context EXCEPT !.inputs = ReadersOfChunk(in_table[next_chunk + 1]),
                                !.chunk_id = next_chunk]
  /\ same_type' = AllSameType(_input_wrappers,
                              ReadersOfChunk(in_table[next_chunk + 1]), TRUE)
  /\ pc' = "execute"
  /\ UNCHANGED <<plan, jit_operators, in_table, out_table, next_chunk, offered,
                 row_loops, prepareVars, notDispatch>>

\* part_002 232-238: the row loop of the chunk; a JitLimit in the chain
\* counts limit_rows down for the rows it lets through
DispatchRowLoop ==
  /\ pc = "execute"
  /\ \E passed \in 0..1 :
       context' = [context EXCEPT !.limit_rows = context.limit_rows - passed]
  /\ \/ /\ same_type
        /\ row_loops' = Append(row_loops,
             [chunk_id |-> context.chunk_id, called |-> "execute_func",
              function |-> specialized_function.execute_func])
     \/ /\ ~same_type
        /\ row_loops' = Append(row_loops,
             [chunk_id |-> context.chunk_id, called |-> "_source()->execute",
              function |-> "JitReadTuples::execute"])
  /\ pc' = "after_chunk"
  /\ UNCHANGED <<plan, jit_operators, in_table, out_table, next_chunk,
                 offered, same_type, prepareVars, notDispatch>>

\* after_chunk and ++chunk_id
DispatchAfterChunk ==
  /\ pc = "after_chunk"
  /\ next_chunk' = next_chunk + 1
  /\ pc' = "chunk_loop"
  /\ UNCHANGED <<plan, jit_operators, in_table, context, out_table, offered,
                 dispatchVars, prepareVars, notDispatch>>

\* the chunk loop ends: no chunk is left, or the limit is used up
DispatchAfterQuery ==
  /\ pc = "chunk_loop"
  /\ ~(next_chunk < Len(in_table) /\ context.limit_rows # 0)
  /\ pc' = "done"
  /\ UNCHANGED <<plan, jit_operators, in_table, context, out_table, next_chunk,
                 offered, dispatchVars, prepareVars, notDispatch>>

NextDispatch ==
  \/ \E specialize \in BOOLEAN : DispatchPrepare(specialize)
  \/ DispatchBeforeChunk
  \/ DispatchRowLoop
  \/ DispatchAfterChunk
  \/ DispatchAfterQuery

SpecDispatch == InitDispatch /\ [][NextDispatch]_vars

(***************************************************************************)
(* C23: one row loop per chunk, chosen by the reader types of the chunk.   *)
(***************************************************************************)
\* the readers of the chunk have the reader types of chunk 0, for which the
\* wrappers were made
ChunkMatches(chunk_id) == in_table[chunk_id + 1] = in_table[1]

MaxRequests == 3       \* calls of the add_ functions while a chain is built
SlotColumnIds == 0..1  \* the ColumnIDs requested
SlotValues == 0..1     \* the literal values requested

notSlots ==
  <<validateVars, scanVars, translateVars, loopVars, prepareVars, dispatchVars,
    executeVars, cacheVars>>

InitSlots ==
  /\ IdleValidate /\ IdleScan /\ IdleTranslate /\ IdleTransaction
  /\ IdlePrepare /\ IdleDispatch /\ IdleExecute /\ IdleCached
  /\ query = "none" /\ dictionaries = <<>>
  /\ _input_columns = <<>> /\ _input_literals = <<>> /\ _input_parameters = <<>>
  /\ _value_id_predicates = <<>> /\ _num_tuple_values = 0
  /\ jit_expression = <<>> /\ _input_parameter_values = <<>> /\ runtime_tuple = <<>>
  /\ read_chunk_id = 0 /\ current_row = <<>>
  /\ rpc = "build"
  /\ handed_out = <<>>
  /\ sink_columns = <<>>

\* the registers after an add_ function, and the JitTupleValue it returned
HandOut(added, by, key, use_value_id) ==
  /\ _input_columns' = added.registers.columns
  /\ _input_literals' = added.registers.literals
  /\ _input_parameters' = added.registers.parameters
  /\ _num_tuple_values' = added.registers.num_tuple_values
  /\ handed_out' = Append(handed_out,
       [by |-> by, key |-> key, use_value_id |-> use_value_id,
        tuple_index |-> added.tuple_value,
        reused |-> added.registers.num_tuple_values = _num_tuple_values])
  /\ UNCHANGED <<query, _value_id_predicates, jit_expression, _input_parameter_values,
                 runtime_tuple, dictionaries, read_chunk_id, current_row, rpc,
                 sink_columns, notSlots>>

SlotsAddInputColumn(column_id, use_value_id) ==
  /\ rpc = "build" /\ Len(handed_out) < MaxRequests
  /\ HandOut(add_input_column(Registers, column_id, use_value_id),
             "add_input_column", column_id, use_value_id)

SlotsAddLiteralValue(value, use_value_id) ==
  /\ rpc = "build" /\ Len(handed_out) < MaxRequests
  /\ HandOut(add_literal_value(Registers, value, use_value_id),
             "add_literal_value", value, use_value_id)

SlotsAddParameterValue(parameter_id, use_value_id) ==
  /\ rpc = "build" /\ Len(handed_out) < MaxRequests
  /\ HandOut(add_parameter_value(Registers, parameter_id, use_value_id),
             "add_parameter_value", parameter_id, use_value_id)

SlotsAddTemporaryValue ==
  /\ rpc = "build" /\ Len(handed_out) < MaxRequests
  /\ HandOut(add_temporary_value(Registers), "add_temporary_value", 0, FALSE)

\* translator 214-217: count(*) is added with the JitTupleValue
\* {DataType::Long, false, 0}
CountStarTupleIndex(num_tuple_values) == 0

\* translator 190-233 and 235-270: the sink is given the result of a
\* translated expression, or the JitTupleValue of count(*)
AddSinkColumn(count_star) ==
  /\ rpc = "build"
  /\ \/ /\ count_star
        /\ sink_columns' = Append(sink_columns,
             [tuple_index |-> CountStarTupleIndex(_num_tuple_values),
              count_star |-> TRUE])
     \/ /\ ~count_star
        /\ \E i \in 1..Len(handed_out) :
             sink_columns' = Append(sink_columns,
               [tuple_index |-> handed_out[i].tuple_index, count_star |-> FALSE])
  /\ rpc' = "chain"
  /\ UNCHANGED <<query, _input_columns, _input_literals, _input_parameters,
                 _value_id_predicates, _num_tuple_values, jit_expression,
                 _input_parameter_values, runtime_tuple, dictionaries, read_chunk_id,
                 current_row, handed_out, notSlots>>

\* before_query 57-58: context.tuple.resize(_num_tuple_values)
SlotsBeforeQuery ==
  /\ rpc = "chain"
  /\ runtime_tuple' = [i \in 1.._num_tuple_values |-> Cell(0)]
  /\ rpc' = "before_chunk"
  /\ UNCHANGED <<query, _input_columns, _input_literals, _input_parameters,
                 _value_id_predicates, _num_tuple_values, jit_expression,
                 _input_parameter_values, dictionaries, read_chunk_id, current_row,
                 slotVars, notSlots>>

NextSlots ==
  \/ \E column_id \in SlotColumnIds, use_value_id \in BOOLEAN :
       SlotsAddInputColumn(column_id, use_value_id)
  \/ \E value \in SlotValues, use_value_id \in BOOLEAN :
       SlotsAddLiteralValue(value, use_value_id)
  \/ \E parameter_id \in ParameterIDs, use_value_id \in BOOLEAN :
       SlotsAddParameterValue(parameter_id, use_value_id)
  \/ SlotsAddTemporaryValue
  \/ \E count_star \in BOOLEAN : AddSinkColumn(count_star)
  \/ SlotsBeforeQuery

SpecSlots == InitSlots /\ [][NextSlots]_vars

(***************************************************************************)
(* C24: every slot index is inside the runtime tuple.                      *)
(***************************************************************************)
\* the slot indices the chain uses
SlotsUsed ==
  {handed_out[i].tuple_index : i \in 1..Len(handed_out)} \cup
  {sink_columns[i].tuple_index : i \in 1..Len(sink_columns)}

\* add_input_column, add_literal_value and add_parameter_value return the
\* slot of an earlier request only for the same key: the same column in the
\* same mode, the same literal or parameter registered in value mode
DistinctButDeduplicated ==
  \A i, j \in 1..Len(handed_out) :
    i < j /\ handed_out[i].tuple_index = handed_out[j].tuple_index =>
      /\ handed_out[j].reused
      /\ handed_out[i].by = handed_out[j].by
      /\ handed_out[i].key = handed_out[j].key
      /\ handed_out[i].by # "add_temporary_value"
      /\ handed_out[i].by = "add_input_column" =>
           handed_out[i].use_value_id = handed_out[j].use_value_id
      /\ handed_out[i].by # "add_input_column" /\ ~handed_out[i].reused =>
           ~handed_out[i].use_value_id

\* C24: once before_query has resized the runtime tuple to N, every slot
\* index handed out by an add_ function or given to the sink, the slot of
\* count(*) among them, is smaller than N, and the slots handed out are
\* pairwise distinct but for deduplication.
C24_SlotsBelowN ==
  rpc = "before_chunk" =>
    /\ \A slot \in SlotsUsed : slot < Len(runtime_tuple)
    /\ DistinctButDeduplicated

\* what holds of the code: the slots the add_ functions hand out are inside
\* the runtime tuple and distinct but for deduplication
HandedOutBelowN ==
  /\ \A i \in 1..Len(handed_out) : handed_out[i].tuple_index < _num_tuple_values
  /\ DistinctButDeduplicated

\* a chain with count(*) as only column: no slot was handed out, the runtime
\* tuple is empty
CountStarOutsideTuple ==
  /\ rpc = "before_chunk"
  /\ handed_out = <<>>
  /\ Len(runtime_tuple) = 0
  /\ \E i \in 1..Len(sink_columns) : sink_columns[i].count_star

(***************************************************************************)
(* C26: the entries of the value-id predicate list.                        *)
(***************************************************************************)
\* the literals and parameters registered in value mode use this slot
ValueModeSlot(tuple_value) ==
  \/ \E i \in 1..Len(_input_literals) :
       _input_literals[i].tuple_value = tuple_value /\ ~_input_literals[i].use_value_id
  \/ \E i \in 1..Len(_input_parameters) :
       _input_parameters[i].tuple_value = tuple_value /\ ~_input_parameters[i].use_value_id

\* the entry names a column in value-id mode and exactly one literal or
\* parameter, which is in value-id mode and whose slot no value-mode literal
\* or parameter has
WellFormedValueIdPredicate(value_id_predicate) ==
  /\ _input_columns[value_id_predicate.input_column_index + 1].use_value_id
  /\ (value_id_predicate.input_literal_index = <<>>)
       # (value_id_predicate.input_parameter_index = <<>>)
  /\ \A i \in 1..Len(value_id_predicate.input_literal_index) :
       LET literal == _input_literals[value_id_predicate.input_literal_index[i] + 1]
       IN literal.use_value_id /\ ~ValueModeSlot(literal.tuple_value)
  /\ \A i \in 1..Len(value_id_predicate.input_parameter_index) :
       LET parameter == _input_parameters[value_id_predicate.input_parameter_index[i] + 1]
       IN parameter.use_value_id /\ ~ValueModeSlot(parameter.tuple_value)

\* the operands of the comparisons of the expression that were registered
\* with add_value_id_predicate: those with a column in value-id mode
RECURSIVE ValueIdComparisons(_)
ValueIdComparisons(expr) ==
  IF Len(expr.children) # 2 THEN {}
  ELSE (IF \E c \in 1..2, i \in 1..Len(_input_columns) :
             /\ expr.children[c].expression_type = "Column"
             /\ _input_columns[i].tuple_value = expr.children[c].result
             /\ _input_columns[i].use_value_id
        THEN {expr} ELSE {})
       \cup ValueIdComparisons(expr.children[1]) \cup ValueIdComparisons(expr.children[2])

\* C26: in a lowered filter expression every entry of the value-id predicate
\* list names a column in value-id mode and exactly one literal or parameter
\* in value-id mode, and no comparison on value ids reads a slot that holds
\* a literal or parameter in value mode, in whatever order the same literal
\* was asked for in the two modes.
C26_ValueIdPredicateEntries ==
  rpc \in {"lowered", "failed", "query", "undefined"} =>
    /\ \A i \in 1..Len(_value_id_predicates) :
         WellFormedValueIdPredicate(_value_id_predicates[i])
    /\ \A expr \in ValueIdComparisons(jit_expression) :
         \A c \in 1..2 : ~ValueModeSlot(expr.children[c].result)

\* u = 1 AND d = 1 with d a dictionary column: the literal asked for in
\* value-id mode is the slot registered in value mode, and the entry for
\* d = 1 names neither a literal nor a parameter
ValueIdPredicateWithoutLiteral ==
  /\ rpc \in {"lowered", "failed"}
  /\ query.family = "Conjunction"
  /\ Len(_input_literals) = 1 /\ ~_input_literals[1].use_value_id
  /\ \E i \in 1..Len(_value_id_predicates) :
       /\ _value_id_predicates[i].input_literal_index = <<>>
       /\ _value_id_predicates[i].input_parameter_index = <<>>

\* d = 1 AND u = 1: asked for in value-id mode first, the literal has a slot
\* of its own in each mode
LiteralInBothModes ==
  /\ rpc = "lowered"
  /\ query.family = "Conjunction"
  /\ Len(_input_literals) = 2
  /\ _input_literals[1].value = _input_literals[2].value
  /\ _input_literals[1].use_value_id /\ ~_input_literals[2].use_value_id
  /\ \A i \in 1..Len(_value_id_predicates) :
       WellFormedValueIdPredicate(_value_id_predicates[i])

(***************************************************************************)
(* A comparison of a column with a literal, lowered for a table whose      *)
(* chunks hold the column in segments of any encoding, and before_chunk    *)
(* on each chunk.                                                          *)
(***************************************************************************)
EncodingChunks == 3    \* chunks of the table: 1..EncodingChunks

\* the tables: the encoding of the segment of column 0 in each chunk
EncodedTables(max_chunks) == UNION {[1..chunks -> EncodingTypes] : chunks \in 1..max_chunks}

\* column 0 compared with a literal on either side; the translator sees the
\* segment of chunk 0
EncodingQueries(table) ==
  {[family |-> "Predicate", input_node |-> "StoredTable",
    expression |->
      Predicate(predicate_condition,
                IF operand_is_left
                THEN <<Value("Int", v), LQPColumn(0, "Int", FALSE, table[1], "StoredTable")>>
                ELSE <<LQPColumn(0, "Int", FALSE, table[1], "StoredTable"), Value("Int", v)>>)] :
     predicate_condition \in BinaryPredicateTypes, operand_is_left \in BOOLEAN, v \in 1..2}

InitEncodings ==
  /\ IdleValidate /\ IdleTranslate /\ IdleTransaction /\ IdleLater
  /\ plan = None /\ jit_operators = <<>> /\ out_table = <<>> /\ offered = <<>>
  /\ context = FreshContext /\ pc = "created"
  /\ in_table \in EncodedTables(EncodingChunks)
  /\ next_chunk = 0
  /\ query \in EncodingQueries(in_table)
  /\ _input_columns = <<>> /\ _input_literals = <<>> /\ _input_parameters = <<>>
  /\ _value_id_predicates = <<>> /\ _num_tuple_values = 0
  /\ jit_expression = <<>> /\ _input_parameter_values = <<>> /\ runtime_tuple = <<>>
  /\ dictionaries = <<>> /\ read_chunk_id = 0 /\ current_row = <<>>
  /\ rpc = "build"

\* add_input_segment_iterators 144-147 and before_chunk 206-208: the
\* dynamic_pointer_cast<BaseDictionarySegment> of the segment of a column in
\* value-id mode gives a null pointer
SegmentIsNotADictionary(input_column, encoding) ==
  input_column.use_value_id /\ ~IsBaseDictionarySegment(encoding)

\* some column in value-id mode has no dictionary segment in the chunk
NotADictionaryIn(encoding) ==
  \E i \in 1..Len(_input_columns) : SegmentIsNotADictionary(_input_columns[i], encoding)

\* the outcomes of add_input_segment_iterators and of the value-id predicate
\* loop on a chunk: the DebugAssert `Segment is not a dictionary` of a debug
\* build, without it the attribute vector and lower_bound of a null pointer
SegmentOutcomes(encoding, reached) ==
  IF NotADictionaryIn(encoding) THEN {"failed", "undefined"} ELSE {reached}

\* before_query 103-110: the literals, and the wrappers for chunk 0
EncodingsBeforeQuery ==
  /\ rpc = "lowered"
  /\ runtime_tuple' = InstallLiteralValues(_input_literals,
                                           [i \in 1.._num_tuple_values |-> Cell(0)])
  /\ rpc' \in SegmentOutcomes(in_table[1], "chunk_loop")
  /\ UNCHANGED <<query, _input_columns, _input_literals, _input_parameters,
                 _value_id_predicates, _num_tuple_values, jit_expression,
                 _input_parameter_values, dictionaries, read_chunk_id, current_row,
                 notReadTuples>>

\* before_chunk 204-249 on the next chunk
EncodingsBeforeChunk ==
  /\ rpc = "chunk_loop" /\ next_chunk < Len(in_table)
  /\ read_chunk_id' = next_chunk
  /\ rpc' \in SegmentOutcomes(in_table[next_chunk + 1], "execute")
  /\ UNCHANGED <<query, _input_columns, _input_literals, _input_parameters,
                 _value_id_predicates, _num_tuple_values, jit_expression,
                 _input_parameter_values, runtime_tuple, dictionaries, current_row,
                 notReadTuples>>

\* the row loop and after_chunk
EncodingsAfterChunk ==
  /\ rpc = "execute"
  /\ next_chunk' = next_chunk + 1
  /\ rpc' = "chunk_loop"
  /\ UNCHANGED <<plan, jit_operators, in_table, context, out_table, offered, pc,
                 query, _input_columns, _input_literals, _input_parameters,
                 _value_id_predicates, _num_tuple_values, jit_expression,
                 _input_parameter_values, runtime_tuple, dictionaries, read_chunk_id,
                 current_row, validateVars, translateVars, loopVars, laterVars>>

NextEncodings ==
  \/ LowerExpression
  \/ EncodingsBeforeQuery
  \/ EncodingsBeforeChunk
  \/ EncodingsAfterChunk

SpecEncodings == InitEncodings /\ [][NextEncodings]_vars

(***************************************************************************)
(* C27: a dictionary behind every column in value-id mode.                 *)
(***************************************************************************)
\* before_chunk has run for chunk read_chunk_id (before_query for chunk 0)
ChunkWasBound == rpc \in {"chunk_loop", "execute", "failed", "undefined"}

\* C27: in every chunk before_chunk has processed, each input column in
\* value-id mode and each column of a value-id predicate has a dictionary
\* segment, and neither the attribute-vector reader nor the dictionary
\* lookup goes to a missing dictionary, whatever the encodings of the chunks.
C27_DictionaryBehindValueIds ==
  ChunkWasBound =>
    /\ \A i \in 1..Len(_input_columns) :
         _input_columns[i].use_value_id =>
           IsBaseDictionarySegment(in_table[read_chunk_id + 1])
    /\ \A i \in 1..Len(_value_id_predicates) :
         IsBaseDictionarySegment(in_table[read_chunk_id + 1])
    /\ rpc \notin {"failed", "undefined"}

\* what holds of the code: over a table whose chunks are all dictionary
\* encoded or all unencoded, no chunk is read through a missing dictionary
UniformTablesAreSafe ==
  (\/ \A k \in 1..Len(in_table) : in_table[k] = "Dictionary"
   \/ \A k \in 1..Len(in_table) : in_table[k] = "Unencoded")
  => rpc \notin {"failed", "undefined"}

\* chunk 0 is dictionary encoded and chunk 1 is not: before_chunk of chunk 1
\* casts the segment to a dictionary segment and reads through the null
\* pointer
LaterChunkWithoutDictionary ==
  /\ rpc = "undefined" /\ read_chunk_id = 1
  /\ in_table[1] = "Dictionary" /\ in_table[2] = "Unencoded"
  /\ _value_id_predicates # <<>>

(***************************************************************************)
(* AbstractOperator::execute of the operators of a plan, one after the     *)
(* other, in a transaction that may be aborted at any time.                *)
(***************************************************************************)
MaxOperators == 3      \* operators of the plan: 1..MaxOperators

\* _type of an operator, as far as execute looks at it
ExecutedOperatorTypes == {"JitOperatorWrapper", "TableScan"}

NoCalls ==
  [_prepare |-> 0, aborted |-> FALSE, on_operator_started |-> 0, _on_execute |-> 0,
   on_operator_finished |-> 0, _on_cleanup |-> 0]

InitExecute ==
  /\ IdleValidate /\ IdleScan /\ IdleReadTuples /\ IdleTranslate
  /\ IdlePrepare /\ IdleDispatch /\ IdleSlots /\ IdleCached
  /\ plan_operators \in UNION {[1..n -> ExecutedOperatorTypes] : n \in 1..MaxOperators}
  /\ transaction_context \in BOOLEAN
  /\ transaction_aborted \in BOOLEAN
  /\ transaction_context \/ ~transaction_aborted
  /\ deep_copy_exists \in BOOLEAN
  /\ executing = 0
  /\ epc = "returned"
  /\ old_deep_copy_exists = [o \in 1..Len(plan_operators) |-> FALSE]
  /\ _output = [o \in 1..Len(plan_operators) |-> "unset"]
  /\ operator_calls = [o \in 1..Len(plan_operators) |-> NoCalls]

\* lines 74-77: every operator but a JitOperatorWrapper sets the flag
SetsDeepCopyExists(_type) == _type # "JitOperatorWrapper"

\* lines 68-103: execute of the next operator up to _prepare
ExecuteCall ==
  /\ epc = "returned" /\ executing < Len(plan_operators)
  /\ executing' = executing + 1
  /\ old_deep_copy_exists' = [old_deep_copy_exists EXCEPT ![executing + 1] = deep_copy_exists]
  /\ deep_copy_exists' = IF SetsDeepCopyExists(plan_operators[executing + 1]) THEN TRUE
                         ELSE deep_copy_exists
  /\ operator_calls' = [operator_calls EXCEPT ![executing + 1]._prepare = @ + 1]
  /\ epc' = "prepared"
  /\ UNCHANGED <<plan_operators, transaction_context, _output, transaction_aborted,
                 notExecute>>

\* lines 138-196: the aborted transaction returns at once; otherwise
\* _on_execute between on_operator_started and on_operator_finished,
\* _on_cleanup, and the flag is set back
ExecuteRun ==
  /\ epc = "prepared"
  /\ IF transaction_context /\ transaction_aborted
     THEN /\ operator_calls' = [operator_calls EXCEPT ![executing].aborted = TRUE]
          /\ UNCHANGED <<_output, deep_copy_exists>>
     ELSE /\ operator_calls' =
               [operator_calls EXCEPT
                  ![executing].on_operator_started =
                     IF transaction_context THEN @ + 1 ELSE @,
                  ![executing]._on_execute = @ + 1,
                  ![executing].on_operator_finished =
                     IF transaction_context THEN @ + 1 ELSE @,
                  ![executing]._on_cleanup = @ + 1]
          /\ _output' = [_output EXCEPT ![executing] = "table"]
          /\ deep_copy_exists' = old_deep_copy_exists[executing]
  /\ epc' = "returned"
  /\ UNCHANGED <<plan_operators, transaction_context, executing, old_deep_copy_exists,
                 transaction_aborted, notExecute>>

\* the transaction is aborted by another operator or the client
ExecuteAbortTransaction ==
  /\ transaction_context /\ ~transaction_aborted
  /\ transaction_aborted' = TRUE
  /\ UNCHANGED <<executeVars, notExecute>>

NextExecute ==
  \/ ExecuteCall
  \/ ExecuteRun
  \/ ExecuteAbortTransaction

SpecExecute == InitExecute /\ [][NextExecute]_vars

(***************************************************************************)
(* C29: execute in an aborted transaction.                                 *)
(***************************************************************************)
\* the call of execute of the operator has returned, and no other has begun
HasReturned(o) == executing = o /\ epc = "returned"

\* C29: when execute has returned for an operator whose transaction was
\* aborted, _on_execute and on_operator_started were not called, the output
\* is unset and deep_copy_exists has the value it had before the call;
\* otherwise on_operator_started and on_operator_finished were each called
\* once around the one call of _on_execute, and deep_copy_exists is restored.
C29_AbortedExecuteChangesNothing ==
  \A o \in 1..Len(plan_operators) :
    HasReturned(o) =>
      /\ deep_copy_exists = old_deep_copy_exists[o]
      /\ IF operator_calls[o].aborted
         THEN /\ operator_calls[o]._on_execute = 0
              /\ operator_calls[o].on_operator_started = 0
              /\ _output[o] = "unset"
         ELSE /\ operator_calls[o]._on_execute = 1
              /\ _output[o] = "table"
              /\ transaction_context =>
                   /\ operator_calls[o].on_operator_started = 1
                   /\ operator_calls[o].on_operator_finished = 1

\* what holds of the code: all of C29 but the flag on the aborted path of an
\* operator that is not a JitOperatorWrapper
ExecuteButForTheFlag ==
  \A o \in 1..Len(plan_operators) :
    HasReturned(o) =>
      /\ (~operator_calls[o].aborted \/ ~SetsDeepCopyExists(plan_operators[o]))
           => deep_copy_exists = old_deep_copy_exists[o]
      /\ IF operator_calls[o].aborted
         THEN /\ operator_calls[o]._on_execute = 0
              /\ operator_calls[o].on_operator_started = 0
              /\ _output[o] = "unset"
         ELSE /\ operator_calls[o]._on_execute = 1
              /\ _output[o] = "table"
              /\ transaction_context =>
                   /\ operator_calls[o].on_operator_started = 1
                   /\ operator_calls[o].on_operator_finished = 1

\* a TableScan of an aborted transaction has returned: _prepare has run and
\* the flag, false before the call, is left true
FlagLeftSet ==
  \E o \in 1..Len(plan_operators) :
    /\ HasReturned(o) /\ operator_calls[o].aborted
    /\ plan_operators[o] = "TableScan"
    /\ ~old_deep_copy_exists[o] /\ deep_copy_exists
    /\ operator_calls[o]._prepare = 1

(***************************************************************************)
(* CardinalityEstimatorCached::estimate, called again and again for one    *)
(* join graph by estimators that share the cache. The cache keeps what     *)
(* set_cardinality and set_timeout are given, and get_cardinality and      *)
(* get_timeout return it; an optional is <<>> or <<x>>.                    *)
(***************************************************************************)
MaxTimeout == 3        \* timeouts: 1..MaxTimeout
MaxCardinality == 2    \* cardinalities: 1..MaxCardinality

Optional(S) == {<<>>} \cup {<<x>> : x \in S}

CardinalityEstimationCacheModes == {"ReadOnly", "ReadAndUpdate"}

\* an estimator: its cache mode and its fallback estimator, which is none, a
\* CardinalityEstimatorExecution with its timeout, or another estimator
CachedEstimators ==
  {[cache_mode |-> cache_mode, fallback_estimator |-> kind, timeout |-> timeout] :
     cache_mode \in CardinalityEstimationCacheModes,
     kind \in {"nullptr", "CardinalityEstimatorExecution", "Other"},
     timeout \in Optional(1..MaxTimeout)} \
  {estimator \in [cache_mode : CardinalityEstimationCacheModes,
                  fallback_estimator : {"nullptr", "Other"},
                  timeout : Optional(1..MaxTimeout)] : estimator.timeout # <<>>}

InitCached ==
  /\ IdleEarlier /\ IdlePrepare /\ IdleDispatch /\ IdleSlots /\ IdleExecute
  /\ cache = [cardinality |-> <<>>, timeout |-> <<>>]
  /\ last_estimate = <<>>

\* lines 30-39: the fallback estimator is asked
RunsFallback(estimator, previous_timeout) ==
  \/ estimator.fallback_estimator = "Other"
  \/ /\ estimator.fallback_estimator = "CardinalityEstimatorExecution"
     /\ \/ previous_timeout = <<>>
        \/ estimator.timeout = <<>>
        \/ previous_timeout[1] < estimator.timeout[1]

\* lines 51-58: what estimate writes to the cache
CacheAfter(estimator, entry, fallback_cardinality) ==
  IF fallback_cardinality # <<>>
  THEN (IF estimator.cache_mode = "ReadAndUpdate"
        THEN [entry EXCEPT !.cardinality = fallback_cardinality] ELSE entry)
  ELSE IF estimator.fallback_estimator = "CardinalityEstimatorExecution"
       THEN [entry EXCEPT !.timeout = estimator.timeout]
       ELSE entry

\* estimate: estimated is what the fallback estimator returns if it is asked
Estimate(estimator, estimated) ==
  /\ IF cache.cardinality # <<>>
     THEN /\ last_estimate' = <<[estimator |-> estimator, ran |-> FALSE,
                                 returned |-> cache.cardinality, cache_before |-> cache]>>
          /\ cache' = cache
     ELSE LET ran == RunsFallback(estimator, cache.timeout)
              fallback_cardinality == IF ran THEN estimated ELSE <<>>
          IN /\ last_estimate' = <<[estimator |-> estimator, ran |-> ran,
                                    returned |-> fallback_cardinality,
                                    cache_before |-> cache]>>
             /\ cache' = CacheAfter(estimator, cache, fallback_cardinality)
  /\ UNCHANGED notCached

NextCached ==
  \E estimator \in CachedEstimators, estimated \in Optional(1..MaxCardinality) :
    Estimate(estimator, estimated)

SpecCached == InitCached /\ [][NextCached]_vars

(***************************************************************************)
(* C30: what a call of estimate does to the cache.                         *)
(***************************************************************************)
\* a cached cardinality is returned, and the fallback estimator not asked
CachedIsReturned(call) ==
  call.cache_before.cardinality # <<>> =>
    call.returned = call.cache_before.cardinality /\ ~call.ran

\* the cache gets a cardinality only in ReadAndUpdate mode
UpdatedOnlyInReadAndUpdate(call) ==
  cache.cardinality # call.cache_before.cardinality =>
    call.estimator.cache_mode = "ReadAndUpdate"

\* C30: in every call of estimate a cached cardinality is returned without
\* the fallback estimator; an execution is run only if the join graph has no
\* timeout or the timeout of the execution is greater than the recorded one;
\* the recorded timeout does not decrease; a cardinality is written only in
\* ReadAndUpdate mode.
C30_EstimateAndCache ==
  \A i \in 1..Len(last_estimate) :
    LET call == last_estimate[i]
    IN /\ CachedIsReturned(call)
       /\ (call.ran /\ call.estimator.fallback_estimator = "CardinalityEstimatorExecution")
            => \/ call.cache_before.timeout = <<>>
               \/ /\ call.estimator.timeout # <<>>
                  /\ call.estimator.timeout[1] > call.cache_before.timeout[1]
       /\ call.cache_before.timeout # <<>> =>
            /\ cache.timeout # <<>>
            /\ cache.timeout[1] >= call.cache_before.timeout[1]
       /\ UpdatedOnlyInReadAndUpdate(call)

\* what holds of the code: the cached cardinality, the cache mode, and the
\* recorded timeout as long as an execution with a timeout of its own was run
EstimateButForSkippedExecutions ==
  \A i \in 1..Len(last_estimate) :
    LET call == last_estimate[i]
    IN /\ CachedIsReturned(call)
       /\ UpdatedOnlyInReadAndUpdate(call)
       /\ (call.ran /\ call.estimator.timeout # <<>> /\ call.cache_before.timeout # <<>>)
            => /\ call.estimator.timeout[1] > call.cache_before.timeout[1]
               /\ cache.timeout # <<>>
               /\ cache.timeout[1] >= call.cache_before.timeout[1]

\* an execution with timeout 1 is not run because one with timeout 2 timed
\* out before, and the recorded timeout goes down to 1
SkippedExecutionLowersTimeout ==
  \E i \in 1..Len(last_estimate) :
    /\ ~last_estimate[i].ran
    /\ last_estimate[i].cache_before.cardinality = <<>>
    /\ last_estimate[i].cache_before.timeout = <<2>>
    /\ last_estimate[i].estimator.timeout = <<1>>
    /\ cache.timeout = <<1>>

====
